---- MODULE Spec2Model ----
(***************************************************************************)
(* Model of the copy engine of gsutil (src/gsutil/gslib/command.py):       *)
(* ExpandWildcardsAndContainers, ErrorCheckCopyRequest,                    *)
(* HandleMultiSrcCopyRequst, SrcDstSame, ConstructDstUri, PerformCopy and  *)
(* CopyObjsCommand.                                                        *)
(*                                                                         *)
(* A Python string is a sequence of one-character strings, so that the     *)
(* regular expressions, find(), rstrip(), basename() and dirname() of the  *)
(* code are computed character by character.  os.sep is "/".               *)
(***************************************************************************)
EXTENDS Integers, Sequences, FiniteSets, TLC

(* ----------------------------------------------------------------------- *)
(* Python string primitives used by command.py                             *)
(* ----------------------------------------------------------------------- *)

SEP == "/"

Slice(s, i, j) == IF i > j THEN <<>> ELSE SubSeq(s, i, j)

\* s[i-1:] of Python, for a 1-based i
From(s, i) == Slice(s, i, Len(s))

\* the largest element of a set of positions, 0 for the empty set
MaxOf(I) == IF I = {} THEN 0 ELSE CHOOSE i \in I : \A j \in I : j <= i

\* the smallest element of a set of positions, 0 for the empty set
MinOf(I) == IF I = {} THEN 0 ELSE CHOOSE i \in I : \A j \in I : i <= j

\* index (1-based) of the last os.sep of s, 0 when there is none
LastSep(s) == MaxOf({i \in 1..Len(s) : s[i] = SEP})

RECURSIVE RStrip(_)
\* s.rstrip(os.sep)
RStrip(s) ==
  IF s # <<>> /\ s[Len(s)] = SEP THEN RStrip(Slice(s, 1, Len(s) - 1)) ELSE s

\* s.rpartition(os.sep)[-1]: what follows the last os.sep (all of s without one)
RPartitionTail(s) == From(s, LastSep(s) + 1)

\* os.path.basename(s)
Basename(s) == From(s, LastSep(s) + 1)

\* the head of os.path.split, trailing separators stripped unless it is made
\* of separators only
StripHead(head) == IF RStrip(head) = <<>> THEN head ELSE RStrip(head)

\* os.path.dirname(s)
Dirname(s) == StripHead(Slice(s, 1, LastSep(s)))

IsPrefixAt(sub, s, i) ==
  /\ i + Len(sub) - 1 <= Len(s)
  /\ \A k \in 1..Len(sub) : s[i + k - 1] = sub[k]

\* s.find(sub): 0-based index of the first occurrence, -1 when there is none
Find(s, sub) == MinOf({i \in 1..(Len(s) + 1) : IsPrefixAt(sub, s, i)}) - 1

\* s[start:] of Python for a start >= -1 (-1 keeps the last character)
PySliceFrom(s, start) ==
  IF start >= 0 THEN From(s, start + 1)
  ELSE IF s = <<>> THEN <<>> ELSE <<s[Len(s)]>>

RECURSIVE SkipSeps(_, _)
\* first index >= i of s that holds no os.sep (Len(s)+1 when there is none)
SkipSeps(s, i) == IF i <= Len(s) /\ s[i] = SEP THEN SkipSeps(s, i + 1) ELSE i

\* s[j:] starts with a dot and an os.sep
DotSepAt(s, j) == j + 1 <= Len(s) /\ s[j] = "." /\ s[j + 1] = SEP

RECURSIVE ReSubDotSegFrom(_, _)
\* re.sub('%s+\.%s+' % (os.sep, os.sep), os.sep, s) from index i on: one
\* left-to-right pass, each non-overlapping match of /+\./+ becomes one os.sep
ReSubDotSegFrom(s, i) ==
  IF i > Len(s) THEN <<>>
  ELSE IF s[i] = SEP /\ DotSepAt(s, SkipSeps(s, i))
    THEN <<SEP>> \o ReSubDotSegFrom(s, SkipSeps(s, SkipSeps(s, i) + 1))
    ELSE <<s[i]>> \o ReSubDotSegFrom(s, i + 1)

ReSubDotSeg(s) == ReSubDotSegFrom(s, 1)

\* re.sub('^.%s+' % os.sep, '', s): the dot of the pattern is not escaped, so
\* it matches any first character that is followed by at least one os.sep
ReSubLeadingDot(s) ==
  IF Len(s) >= 2 /\ s[2] = SEP THEN From(s, SkipSeps(s, 2)) ELSE s

(* ----------------------------------------------------------------------- *)
(* The strings of the modelled world                                       *)
(* ----------------------------------------------------------------------- *)

\* "file0"
P_file0 == <<"f", "i", "l", "e", "0">>
\* "dir0"
P_dir0 == <<"d", "i", "r", "0">>
\* "dir0/file1"
P_dir0_file1 == <<"d", "i", "r", "0", "/", "f", "i", "l", "e", "1">>
\* "dir0/dir1"
P_dir0_dir1 == <<"d", "i", "r", "0", "/", "d", "i", "r", "1">>
\* "dir0/dir1/file2"
P_dir0_dir1_file2 == <<"d", "i", "r", "0", "/", "d", "i", "r", "1", "/", "f", "i", "l", "e", "2">>
\* "a"
P_a == <<"a">>
\* "a/b"
P_a_b == <<"a", "/", "b">>
\* "c"
P_c == <<"c">>
\* "c/b"
P_c_b == <<"c", "/", "b">>
\* "d"
P_d == <<"d">>
\* "ab"
P_ab == <<"a", "b">>
\* "ab/b"
P_ab_b == <<"a", "b", "/", "b">>
\* "ab/b/f"
P_ab_b_f == <<"a", "b", "/", "b", "/", "f">>
\* "x"
P_x == <<"x">>

\* "dd"
P_dd == <<"d", "d">>

\* "dd/ab"
P_dd_ab == <<"d", "d", "/", "a", "b">>
\* "dd/bucket"
P_dd_bucket == <<"d", "d", "/", "b", "u", "c", "k", "e", "t">>

\* "dd/bucket/f"
P_dd_bucket_f == <<"d", "d", "/", "b", "u", "c", "k", "e", "t", "/", "f">>

\* "new"
P_new == <<"n", "e", "w">>
\* "."
P_dot == <<".">>
\* "./a/b"
P_dot_a_b == <<".", "/", "a", "/", "b">>
\* "a/./b"
P_a_dot_b == <<"a", "/", ".", "/", "b">>
\* "a/././b"
P_a_dot_dot_b == <<"a", "/", ".", "/", ".", "/", "b">>
\* "o"
P_o == <<"o">>
\* "x/y"
P_x_y == <<"x", "/", "y">>
\* "bucket"
P_bucket == <<"b", "u", "c", "k", "e", "t">>
\* "*"
P_star == <<"*">>
\* "**"
P_starstar == <<"*", "*">>
\* "z*"
P_z_star == <<"z", "*">>
\* "file*"
P_file_star == <<"f", "i", "l", "e", "*">>
\* "o*"
P_o_star == <<"o", "*">>
\* "n*"
P_n_star == <<"n", "*">>
\* "a/*"
P_a_star == <<"a", "/", "*">>

(* ----------------------------------------------------------------------- *)
(* StorageUri: the locator of boto, as command.py uses it                  *)
(* ----------------------------------------------------------------------- *)

FileUri(path) == [scheme |-> "file", bucket_name |-> <<>>, object_name |-> path]

BucketUri(scheme, bucket, obj) ==
  [scheme |-> scheme, bucket_name |-> bucket, object_name |-> obj]

NoUri == [scheme |-> "none", bucket_name |-> <<>>, object_name |-> <<>>]

is_file_uri(u) == u.scheme = "file"

is_cloud_uri(u) == u.scheme # "file"

\* uri.uri: the string form of the locator
UriStr(u) ==
  IF is_file_uri(u) THEN <<"file", ":", "/", "/">> \o u.object_name
  ELSE IF u.bucket_name = <<>> THEN <<u.scheme, ":", "/", "/">>
  ELSE <<u.scheme, ":", "/", "/">> \o u.bucket_name \o <<"/">> \o u.object_name

WildcardChars == {"*", "?", "[", "]"}

\* ContainsWildcard(uri_str)
ContainsWildcard(u) ==
  \E i \in 1..Len(u.bucket_name \o u.object_name) :
     (u.bucket_name \o u.object_name)[i] \in WildcardChars

(* ----------------------------------------------------------------------- *)
(* The local file system and the object store                              *)
(* A world is [files, dirs: sets of canonical paths, objs: set of cloud    *)
(* locators].  Paths are relative to the working directory, whose          *)
(* canonical path is the empty sequence.                                   *)
(* ----------------------------------------------------------------------- *)

RECURSIVE Split(_)
RECURSIVE SplitAt(_, _)
\* s.split(os.sep), i being s.find(os.sep)
SplitAt(s, i) ==
  IF i = -1 THEN <<s>> ELSE <<Slice(s, 1, i)>> \o Split(From(s, i + 2))

Split(s) == SplitAt(s, Find(s, <<SEP>>))

RECURSIVE Join(_)
Join(cs) ==
  IF cs = <<>> THEN <<>>
  ELSE IF Len(cs) = 1 THEN cs[1]
  ELSE cs[1] \o <<SEP>> \o Join(Tail(cs))

IsNameComponent(c) == c # <<>> /\ c # <<".">>

\* the path the operating system resolves s to: empty and "." components drop
Canon(s) == Join(SelectSeq(Split(s), IsNameComponent))

\* os.path.isdir(s)
IsDir(w, s) == s # <<>> /\ Canon(s) \in (w.dirs \cup {<<>>})

\* os.path.isfile(s)
IsFile(w, s) ==
  /\ s # <<>>
  /\ IsNameComponent(Basename(s))
  /\ Canon(s) \in w.files

\* os.path.exists(s)
Exists(w, s) ==
  /\ s # <<>>
  /\ Canon(s) \in (w.dirs \cup {<<>>} \cup IF IsNameComponent(Basename(s)) THEN w.files ELSE {})

\* uri.names_container(): a directory, or a cloud locator without object name
names_container(w, u) ==
  IF u.scheme = "file" THEN IsDir(w, u.object_name) ELSE u.object_name = <<>>

\* uri.names_singleton(): a file, or a cloud locator with an object name
names_singleton(w, u) ==
  IF u.scheme = "file" THEN IsFile(w, u.object_name) ELSE u.object_name # <<>>

\* uri.clone_replace_name(new_name); a bucket-less cloud locator has no clone
CanClone(u) == u.scheme = "file" \/ u.bucket_name # <<>>

clone_replace_name(u, new_name) ==
  IF u.scheme = "file" THEN FileUri(new_name)
  ELSE BucketUri(u.scheme, u.bucket_name, new_name)

(* ----------------------------------------------------------------------- *)
(* Wildcard expander (gslib/wildcard_iterator.py)                          *)
(* ----------------------------------------------------------------------- *)

RECURSIVE GlobMatch(_, _)
\* fnmatch of a name against a pattern of literals, "?" and "*"
GlobMatch(pat, s) ==
  IF pat = <<>> THEN s = <<>>
  ELSE IF pat[1] = "*"
    THEN GlobMatch(Tail(pat), s) \/ (s # <<>> /\ GlobMatch(pat, Tail(s)))
    ELSE s # <<>> /\ (pat[1] = "?" \/ pat[1] = s[1])
         /\ GlobMatch(Tail(pat), Tail(s))

HasWildcard(s) == \E i \in 1..Len(s) : s[i] \in WildcardChars

\* the listing order of the file system and of the object store
ListingOrder ==
  <<P_a_b, P_ab_b_f, P_dd_ab, P_dd_bucket_f, P_dir0_file1, P_dir0_dir1_file2,
    P_file0, P_x,
    P_a, P_ab, P_ab_b, P_c, P_d, P_dd, P_dd_bucket, P_dir0, P_dir0_dir1, P_o, P_x_y>>

InListingOrder(S) == SelectSeq(ListingOrder, LAMBDA p : p \in S)

\* the canonical path s lies below the canonical directory d
IsUnder(d, s) ==
  IF d = <<>> THEN s # <<>>
  ELSE Len(s) > Len(d) + 1 /\ IsPrefixAt(d \o <<SEP>>, s, 1)

\* the canonical path s, relative to the canonical directory d
RelTo(d, s) == IF d = <<>> THEN s ELSE From(s, Len(d) + 2)

\* the hits, named as glob and os.walk name them: the directory as typed,
\* os.sep, and the path below it
HitUris(dirtext, d, hits) ==
  [i \in 1..Len(hits) |->
     FileUri((IF dirtext = <<>> THEN <<>> ELSE dirtext \o <<SEP>>) \o RelTo(d, hits[i]))]

\* the files below directory d
WalkHits(w, d) == InListingOrder({f \in w.files : IsUnder(d, f)})

\* the entries of directory d whose name matches the pattern
GlobHits(w, d, last) ==
  InListingOrder({e \in w.files \cup w.dirs :
                    /\ IsUnder(d, e)
                    /\ Find(RelTo(d, e), <<SEP>>) = -1
                    /\ GlobMatch(last, RelTo(d, e))})

\* matches of the local pattern pat, last being its last component, dirtext
\* its directory as typed and d the canonical path of that directory
FileMatchesIn(w, pat, last, dirtext, d) ==
  IF last = P_starstar THEN HitUris(dirtext, d, WalkHits(w, d))
  ELSE IF HasWildcard(last) THEN HitUris(dirtext, d, GlobHits(w, d, last))
  ELSE IF Exists(w, pat) THEN <<FileUri(pat)>> ELSE <<>>

\* matches of a local pattern: "<dir>/**" walks the directory for its files,
\* a wildcard in the last component matches the entries of its directory,
\* a name without wildcard matches itself when it exists
FileMatches(w, pat) ==
  FileMatchesIn(w, pat, Basename(pat), Dirname(pat), Canon(Dirname(pat)))

ObjectUris(u, names) ==
  [i \in 1..Len(names) |-> BucketUri(u.scheme, u.bucket_name, names[i])]

\* matches of a cloud pattern: a locator without wildcard yields itself, an
\* object pattern yields the objects of the bucket whose names match it
CloudMatches(w, u) ==
  IF ~ContainsWildcard(u) THEN <<u>>
  ELSE ObjectUris(u, InListingOrder(
         {o.object_name : o \in
            {o \in w.objs : /\ o.scheme = u.scheme
                            /\ o.bucket_name = u.bucket_name
                            /\ GlobMatch(u.object_name, o.object_name)}}))

\* list(self.CmdWildcardIterator(uri))
CmdWildcardIterator(w, u) ==
  IF u.scheme = "file" THEN FileMatches(w, u.object_name) ELSE CloudMatches(w, u)

(* ----------------------------------------------------------------------- *)
(* SrcDstSame                                                              *)
(* ----------------------------------------------------------------------- *)

\* command.py 997-999 (and 1000-1002): "Translate a/b/./c to a/b/c"
NormalizePath(path) == ReSubLeadingDot(ReSubDotSeg(path))

SrcDstSame(src_uri, dst_uri) ==
  IF is_file_uri(src_uri) /\ is_file_uri(dst_uri)
    THEN UriStr(clone_replace_name(src_uri, NormalizePath(src_uri.object_name)))
         = UriStr(clone_replace_name(dst_uri, NormalizePath(dst_uri.object_name)))
    ELSE UriStr(src_uri) = UriStr(dst_uri)

(* ----------------------------------------------------------------------- *)
(* CheckForDirFileConflict and ConstructDstUri                             *)
(* Results are records [err, ...]: err is the exception raised, "ok" when  *)
(* the call returns.                                                       *)
(* ----------------------------------------------------------------------- *)

\* TRUE when CheckForDirFileConflict raises
CheckForDirFileConflict(w, dst_path) ==
  \/ IsFile(w, Dirname(dst_path))
  \/ IsDir(w, dst_path)

\* MirrorKey that keeps only the last component of the member
MirrorKeyBasename(src_name, exp_name) == Basename(exp_name)

\* the key under which a member of a copied container is stored
MirrorKey(src_name, exp_name) ==
  PySliceFrom(exp_name, Find(exp_name, RPartitionTail(RStrip(src_name))))

\* FlattenKey that keeps the whole name of the source
FlattenKeyWhole(exp_name) == exp_name

\* the key under which a copied file or object is stored
FlattenKey(exp_name) == Basename(exp_name)

\* command.py 1031-1038: dst_key_name before the directory is prepended
DstKeyName(w, src_uri, exp_src_uri) ==
  IF names_container(w, src_uri)
    THEN MirrorKey(src_uri.object_name, exp_src_uri.object_name)
    ELSE FlattenKey(exp_src_uri.object_name)

\* command.py 1047: base_dst_uri.clone_replace_name(dst_key_name)
CloneOrRaise(base_dst_uri, dst_key_name) ==
  IF ~CanClone(base_dst_uri) THEN [err |-> "InvalidUriError", uri |-> NoUri]
  ELSE [err |-> "ok", uri |-> clone_replace_name(base_dst_uri, dst_key_name)]

\* command.py 1039-1043: a key below a local directory is checked for a conflict
UnderLocalDir(w, base_dst_uri, dst_key_name) ==
  IF CheckForDirFileConflict(w, dst_key_name)
    THEN [err |-> "DirFileConflict", uri |-> NoUri]
    ELSE CloneOrRaise(base_dst_uri, dst_key_name)

\* ConstructDstUri that names the destination after the source whatever the
\* base destination is
ConstructDstUriByKey(w, src_uri, exp_src_uri, base_dst_uri) ==
  IF is_file_uri(base_dst_uri)
    THEN UnderLocalDir(w, base_dst_uri,
           base_dst_uri.object_name \o <<SEP>> \o DstKeyName(w, src_uri, exp_src_uri))
    ELSE CloneOrRaise(base_dst_uri, DstKeyName(w, src_uri, exp_src_uri))

\* [err, uri]
ConstructDstUri(w, src_uri, exp_src_uri, base_dst_uri) ==
  IF names_container(w, base_dst_uri)
    THEN IF is_file_uri(base_dst_uri)
           THEN UnderLocalDir(w, base_dst_uri,
                  base_dst_uri.object_name \o <<SEP>> \o DstKeyName(w, src_uri, exp_src_uri))
           ELSE CloneOrRaise(base_dst_uri, DstKeyName(w, src_uri, exp_src_uri))
    ELSE CloneOrRaise(base_dst_uri, base_dst_uri.object_name)

(* ----------------------------------------------------------------------- *)
(* ExpandWildcardsAndContainers                                            *)
(* The expansion map is a sequence of entries [key, vals] in the iteration *)
(* order of the dict; its keys are locator objects, compared by identity.  *)
(* ----------------------------------------------------------------------- *)

RECURSIVE ExpandStep1(_, _)
\* Step 1: the sources that are no file wildcards, plus the matches of those
\* that are
ExpandStep1(w, uri_strs) ==
  IF uri_strs = <<>> THEN <<>>
  ELSE (IF is_file_uri(Head(uri_strs)) /\ ContainsWildcard(Head(uri_strs))
          THEN CmdWildcardIterator(w, Head(uri_strs))
          ELSE <<Head(uri_strs)>>)
       \o ExpandStep1(w, Tail(uri_strs))

\* ExpandOne that expands a container whether or not recursion was requested
ExpandOneAlways(w, uri, should_recurse) ==
  IF names_container(w, uri) /\ CanClone(uri)
    THEN [err |-> "ok",
          vals |-> CmdWildcardIterator(w,
                     IF is_file_uri(uri)
                       THEN FileUri(uri.object_name \o <<SEP>> \o P_starstar)
                       ELSE clone_replace_name(uri, P_star))]
    ELSE [err |-> "ok", vals |-> CmdWildcardIterator(w, uri)]

\* Step 2 for one locator: [err, vals]
ExpandOne(w, uri, should_recurse) ==
  IF names_container(w, uri)
    THEN IF ~should_recurse
           THEN [err |-> "ok", vals |-> <<>>]
         ELSE IF is_file_uri(uri)
           THEN [err |-> "ok",
                 vals |-> CmdWildcardIterator(w,
                            FileUri(uri.object_name \o <<SEP>> \o P_starstar))]
         ELSE IF ~CanClone(uri)
           THEN [err |-> "InvalidUriError", vals |-> <<>>]
         ELSE [err |-> "ok",
               vals |-> CmdWildcardIterator(w, clone_replace_name(uri, P_star))]
    ELSE [err |-> "ok", vals |-> CmdWildcardIterator(w, uri)]

\* Step 2: the dict built from the locators and their expansions
ExpandStep2(uris_to_expand, ones) ==
  IF \E i \in 1..Len(ones) : ones[i].err # "ok"
    THEN [err |-> "InvalidUriError", map |-> <<>>]
    ELSE [err |-> "ok",
          map |-> [i \in 1..Len(ones) |->
                     [key |-> uris_to_expand[i], vals |-> ones[i].vals]]]

ExpandAll(w, uris_to_expand, should_recurse) ==
  ExpandStep2(uris_to_expand,
              [i \in 1..Len(uris_to_expand) |->
                 ExpandOne(w, uris_to_expand[i], should_recurse)])

\* [err, map]: map holds the entries in insertion order
ExpandWildcardsAndContainers(w, uri_strs, should_recurse) ==
  ExpandAll(w, ExpandStep1(w, uri_strs), should_recurse)

\* the pairs of one entry
EntryPairs(e) == [i \in 1..Len(e.vals) |-> [src |-> e.key, exp |-> e.vals[i]]]

RECURSIVE PairsOf(_)
\* the (original source, concrete source) pairs in iteration order
PairsOf(map) ==
  IF map = <<>> THEN <<>> ELSE EntryPairs(Head(map)) \o PairsOf(Tail(map))

(* ----------------------------------------------------------------------- *)
(* ErrorCheckCopyRequest                                                   *)
(* ----------------------------------------------------------------------- *)

\* ProviderOnlySrc that looks at the first key only
ProviderOnlySrcFirstKey(map) ==
  map # <<>> /\ is_cloud_uri(map[1].key) /\ map[1].key.bucket_name = <<>>

\* command.py 907-909: some source of the map is a bucket-less cloud locator
ProviderOnlySrc(map) ==
  \E i \in 1..Len(map) : is_cloud_uri(map[i].key) /\ map[i].key.bucket_name = <<>>

\* HaveWork that looks at the first list only
HaveWorkFirstOnly(map) == map # <<>> /\ map[1].vals # <<>>

\* command.py 923-927: have_work
HaveWork(map) == \E i \in 1..Len(map) : map[i].vals # <<>>

\* MultiSrcRequest that counts the keys only
MultiSrcRequestKeysOnly(map) == Len(map) > 1

\* command.py 932-933: multi_src_request (values()[0] is the first list in
\* iteration order)
MultiSrcRequest(map) == Len(map) > 1 \/ Len(map[1].vals) > 1

\* TRUE when InsistUriNamesContainer raises
InsistUriNamesContainer(w, uri) == names_singleton(w, uri)

\* command.py 943-946 for one pair whose destination construction gave r
PairError(exp_src_uri, r, rest) ==
  IF r.err # "ok" THEN r.err
  ELSE IF SrcDstSame(exp_src_uri, r.uri) THEN "SameObject"
  ELSE rest

\* FirstPairError that never raises
FirstPairErrorNone(w, pairs, base_dst_uri) == "ok"

RECURSIVE FirstPairError(_, _, _)
\* command.py 941-946: the exception of the first pair, in iteration order,
\* whose destination cannot be constructed or is the source itself
FirstPairError(w, pairs, base_dst_uri) ==
  IF pairs = <<>> THEN "ok"
  ELSE PairError(Head(pairs).exp,
                 ConstructDstUri(w, Head(pairs).src, Head(pairs).exp, base_dst_uri),
                 FirstPairError(w, Tail(pairs), base_dst_uri))

\* command.py 914-917: an empty list of matches makes matches[0] raise IndexError
BaseOfMatches(matches) ==
  IF Len(matches) > 1 THEN [err |-> "DstMatchesMany", base |-> NoUri]
  ELSE IF matches = <<>> THEN [err |-> "IndexError", base |-> NoUri]
  ELSE [err |-> "ok", base |-> matches[1]]

\* command.py 911-919: [err, base]
BaseDstUri(w, dst_uri) ==
  IF ContainsWildcard(dst_uri) THEN BaseOfMatches(CmdWildcardIterator(w, dst_uri))
  ELSE [err |-> "ok", base |-> dst_uri]

CheckFailed(e) == [err |-> e, base |-> NoUri, multi |-> FALSE]

\* command.py 941-948
CheckPairs(e, base_dst_uri, multi) ==
  IF e # "ok" THEN CheckFailed(e)
  ELSE [err |-> "ok", base |-> base_dst_uri, multi |-> multi]

\* ErrorCheckCopyRequest, b being the outcome of lines 911-919
ErrorCheckWithBase(w, src_uri_expansion, b) ==
  IF ProviderOnlySrc(src_uri_expansion) THEN CheckFailed("ProviderOnly")
  ELSE IF b.err # "ok" THEN CheckFailed(b.err)
  ELSE IF ~HaveWork(src_uri_expansion) THEN CheckFailed("NothingToCopy")
  ELSE IF MultiSrcRequest(src_uri_expansion) /\ InsistUriNamesContainer(w, b.base)
    THEN CheckFailed("MustNameContainer")
  ELSE CheckPairs(FirstPairError(w, PairsOf(src_uri_expansion), b.base),
                  b.base, MultiSrcRequest(src_uri_expansion))

\* [err, base, multi]: the exception raised ("ok": none) and the values returned
ErrorCheckCopyRequest(w, src_uri_expansion, dst_uri) ==
  ErrorCheckWithBase(w, src_uri_expansion, BaseDstUri(w, dst_uri))

(* ----------------------------------------------------------------------- *)
(* HandleMultiSrcCopyRequst                                                *)
(* ----------------------------------------------------------------------- *)

\* the canonical paths named by the components cs and by their prefixes
PrefixPaths(cs) ==
  IF cs = <<<<>>>> THEN {} ELSE {Join(SubSeq(cs, 1, k)) : k \in 1..Len(cs)}

\* the canonical paths of s and of the directories above it
SelfAndAncestors(s) == PrefixPaths(Split(Canon(s)))

\* os.makedirs of the directories ds: [err, w]
MakeAll(w, ds) ==
  IF ds \cap w.files # {} THEN [err |-> "OSError", w |-> w]
  ELSE [err |-> "ok", w |-> [w EXCEPT !.dirs = @ \cup ds]]

\* os.makedirs(s): [err, w]
MakeDirs(w, s) == MakeAll(w, SelfAndAncestors(s))

\* command.py 978-981: [err, uri, w]
CreateDstDir(w, dst_uri) ==
  IF is_file_uri(dst_uri) /\ ~Exists(w, dst_uri.object_name)
    THEN [err |-> MakeDirs(w, dst_uri.object_name).err, uri |-> dst_uri,
          w |-> MakeDirs(w, dst_uri.object_name).w]
    ELSE [err |-> "ok", uri |-> dst_uri, w |-> w]

\* command.py 972-977: the destination, nested when source and destination
\* name containers and the destination exists
NestedDst(w, src_uri_to_check, dst_uri) ==
  IF /\ names_container(w, src_uri_to_check)
     /\ names_container(w, dst_uri)
     /\ Exists(w, dst_uri.object_name)
    THEN clone_replace_name(dst_uri,
           RStrip(dst_uri.object_name \o <<SEP>> \o src_uri_to_check.bucket_name))
    ELSE dst_uri

\* [err, uri, w]: the destination to copy to and the file system afterwards
HandleMultiSrcCopyRequst(w, src_uri_expansion, dst_uri) ==
  CreateDstDir(w, NestedDst(w, src_uri_expansion[1].key, dst_uri))

(* ----------------------------------------------------------------------- *)
(* PerformCopy                                                             *)
(* ----------------------------------------------------------------------- *)

\* src_uri.get_key(): the source exists
HasKey(w, uri) ==
  IF is_file_uri(uri) THEN IsFile(w, uri.object_name) ELSE uri \in w.objs

\* open(name, 'wb') succeeds: the directory exists and name is no directory
CanOpenForWrite(w, name) ==
  /\ name # <<>>
  /\ ~IsDir(w, name)
  /\ (Dirname(name) = <<>> \/ IsDir(w, Dirname(name)))
  /\ Basename(name) # <<>>

\* command.py 696-703: the file is opened and written
WriteFile(w, name) ==
  IF ~CanOpenForWrite(w, name) THEN [err |-> "IOError", w |-> w]
  ELSE [err |-> "ok", w |-> [w EXCEPT !.files = @ \cup {Canon(name)}]]

\* command.py 682-684, m being the outcome of os.makedirs(dir_name)
WriteAfterMakeDirs(m, file_name) ==
  IF m.err # "ok" THEN m ELSE WriteFile(m.w, file_name)

\* DownloadObjectToFile: the directories of the file are made, then it is written
DownloadObjectToFile(w, dst_uri) ==
  IF Dirname(dst_uri.object_name) # <<>> /\ ~Exists(w, Dirname(dst_uri.object_name))
    THEN WriteAfterMakeDirs(MakeDirs(w, Dirname(dst_uri.object_name)),
                            dst_uri.object_name)
    ELSE WriteFile(w, dst_uri.object_name)

\* CopyFileToFile
CopyFileToFile(w, dst_uri) == WriteFile(w, dst_uri.object_name)

\* the object store after dst_uri has been written
PutObject(w, dst_uri) == [err |-> "ok", w |-> [w EXCEPT !.objs = @ \cup {dst_uri}]]

\* [err, w]: the exception raised ("ok": none) and the world afterwards
PerformCopy(w, src_uri, dst_uri) ==
  IF ~HasKey(w, src_uri) THEN [err |-> "DoesNotExist", w |-> w]
  ELSE IF is_cloud_uri(dst_uri) THEN PutObject(w, dst_uri)
  ELSE IF is_cloud_uri(src_uri) THEN DownloadObjectToFile(w, dst_uri)
  ELSE CopyFileToFile(w, dst_uri)

(* ----------------------------------------------------------------------- *)
(* The transfers at the level of bytes                                     *)
(* A body is a sequence of bytes.  A transfer world x is                   *)
(* [disk: file name -> body, objects: locator -> [body, content_encoding], *)
(*  log: the transfers and deletions started so far].                      *)
(* A job j gives the options of the call and the behaviour of the          *)
(* environment: resumable_threshold, gzip_exts (-z), guess_type (-t),      *)
(* free (bytes free at the temp location), start_point (offset a resumed   *)
(* transfer starts from), download_fails, upload_fails.                    *)
(* ----------------------------------------------------------------------- *)

\* "."
DOT == "."

\* ".gz"
P_dot_gz == <<".", "g", "z">>

\* "_.gztmp"
P_gztmp == <<"_", ".", "g", "z", "t", "m", "p">>

\* "txt"
P_txt == <<"t", "x", "t">>

\* "gz"
P_gz == <<"g", "z">>

\* s.endswith(suffix)
EndsWith(s, suffix) ==
  Len(suffix) <= Len(s) /\ From(s, Len(s) - Len(suffix) + 1) = suffix

\* index (1-based) of the last "." of s, 0 when there is none
LastDot(s) == MaxOf({i \in 1..Len(s) : s[i] = DOT})

\* command.py 654-655: s.split('.') has more than one part and the last part
\* is one of the extensions
HasExtIn(s, gzip_exts) ==
  /\ LastDot(s) > 0
  /\ \E i \in 1..Len(gzip_exts) : gzip_exts[i] = From(s, LastDot(s) + 1)

\* the first byte of a gzip stream
GZ_MAGIC == 31

\* gzip of a body: the magic, then every byte encoded
Gzip(body) == <<GZ_MAGIC>> \o [i \in 1..Len(body) |-> 1 - body[i]]

IsGzip(body) == body # <<>> /\ body[1] = GZ_MAGIC

\* gunzip of a gzip stream
Gunzip(body) == [i \in 1..(Len(body) - 1) |-> 1 - body[i + 1]]

\* the dict f with f[k] = v
Put(f, k, v) == [n \in DOMAIN f \cup {k} |-> IF n = k THEN v ELSE f[n]]

\* the dict f without key k
Drop(f, k) == [n \in DOMAIN f \ {k} |-> f[n]]

\* the number of bytes already transferred when a transfer of file_size bytes
\* is resumed
StartPoint(j, file_size) == IF j.start_point < file_size THEN j.start_point ELSE file_size

\* a transfer or deletion is started
Logged(x, op, uri) == [x EXCEPT !.log = Append(@, [op |-> op, uri |-> uri])]

\* mimetypes.guess_type(name): [mime_type, content_encoding]
GuessType(name) ==
  IF EndsWith(name, P_dot_gz)
    THEN [mime_type |-> "none", content_encoding |-> "gzip"]
  ELSE IF HasExtIn(name, <<P_txt>>)
    THEN [mime_type |-> "text/plain", content_encoding |-> "none"]
  ELSE [mime_type |-> "none", content_encoding |-> "none"]

\* GetTransferHandlers that offers resumable uploads to every provider
GetTransferHandlersAnyScheme(scheme, file_size, upload, resumable_threshold) ==
  IF file_size >= resumable_threshold
    THEN [cb |-> TRUE,
          transfer_handler |-> IF upload THEN "ResumableUploadHandler"
                               ELSE "ResumableDownloadHandler"]
    ELSE [cb |-> FALSE, transfer_handler |-> "None"]

\* command.py 532-576: [cb, transfer_handler]
GetTransferHandlers(scheme, file_size, upload, resumable_threshold) ==
  IF file_size >= resumable_threshold
    THEN [cb |-> TRUE,
          transfer_handler |->
            IF upload
              THEN IF scheme = "gs" THEN "ResumableUploadHandler" ELSE "None"
              ELSE "ResumableDownloadHandler"]
    ELSE [cb |-> FALSE, transfer_handler |-> "None"]

\* BytesTransferred that reports the whole size
BytesTransferredWhole(j, file_size, transfer_handler) == file_size

\* command.py 623-626 and 705-709: bytes_transferred
BytesTransferred(j, file_size, transfer_handler) ==
  IF transfer_handler # "None" THEN file_size - StartPoint(j, file_size)
  ELSE file_size

\* dst_key.set_contents_from_file(fp, headers): [err, x]
SetContentsFromFile(x, j, body, dst_uri, headers) ==
  IF j.upload_fails THEN [err |-> "UploadError", x |-> Logged(x, "upload", dst_uri)]
  ELSE [err |-> "ok",
        x |-> [Logged(x, "upload", dst_uri) EXCEPT
                 !.objects = Put(@, dst_uri,
                                 [body |-> body,
                                  content_encoding |-> headers.content_encoding])]]

\* command.py 603-628, s being the outcome of set_contents_from_file:
\* [err, x, bytes_transferred, headers]
UploadedAs(s, j, file_size, transfer_handler, headers) ==
  [err |-> s.err, x |-> s.x, headers |-> headers,
   bytes_transferred |->
     IF s.err = "ok" THEN BytesTransferred(j, file_size, transfer_handler) ELSE 0]

\* command.py 603-628
PerformResumableUploadIfApplies(x, j, body, dst_uri, headers) ==
  UploadedAs(SetContentsFromFile(x, j, body, dst_uri, headers), j, Len(body),
             GetTransferHandlers(dst_uri.scheme, Len(body), TRUE,
                                 j.resumable_threshold).transfer_handler,
             headers)

\* the file tempfile.mkstemp() creates for the compressed copy
P_gzip_tmp == <<"t", "m", "p", "1">>

\* the file tempfile.NamedTemporaryFile() creates for staging
P_stage_tmp == <<"t", "m", "p", "2">>

\* the result of a call that raised e in world x
Raised(e, x, headers) ==
  [err |-> e, x |-> x, bytes_transferred |-> 0, headers |-> headers]

\* command.py 641-651: the headers after option -t
GuessedHeaders(j, src_name, headers) ==
  IF ~j.guess_type THEN headers
  ELSE [content_type |->
          IF GuessType(src_name).mime_type # "none"
            THEN GuessType(src_name).mime_type ELSE headers.content_type,
        content_encoding |->
          IF GuessType(src_name).content_encoding # "none"
            THEN GuessType(src_name).content_encoding ELSE headers.content_encoding]

\* command.py 672: os.unlink(gzip_path), reached when the upload r returned
Unlinked(r, path) ==
  IF r.err # "ok" THEN r ELSE [r EXCEPT !.x.disk = Drop(@, path)]

\* command.py 658-672: the compressing path of UploadFileToObject
GzipUpload(x, j, body, dst_uri, headers) ==
  IF j.free < 2 * Len(body)
    THEN Raised("InadequateTempSpace",
                [x EXCEPT !.disk = Put(@, P_gzip_tmp, <<>>)], headers)
    ELSE Unlinked(
           PerformResumableUploadIfApplies(
             [x EXCEPT !.disk = Put(@, P_gzip_tmp, Gzip(body))], j, Gzip(body),
             dst_uri, [headers EXCEPT !.content_encoding = "gzip"]),
           P_gzip_tmp)

\* command.py 654-675: compress when the extension of the source is listed
UploadBranch(x, j, src_name, body, dst_uri, headers) ==
  IF HasExtIn(src_name, j.gzip_exts)
    THEN GzipUpload(x, j, body, dst_uri, headers)
    ELSE PerformResumableUploadIfApplies(x, j, body, dst_uri, headers)

\* command.py 630-676: [err, x, bytes_transferred, headers]
UploadFileToObject(x, j, src_name, dst_uri, headers) ==
  IF j.canned_acl = "bogus" THEN Raised("InvalidCannedACL", x, headers)
  ELSE UploadBranch(x, j, src_name, x.disk[src_name], dst_uri,
                    GuessedHeaders(j, src_name, headers))

\* DownloadFileName that never goes through a temporary file
DownloadFileNameDirect(key, file_name) == file_name

\* command.py 686-695: download_file_name
DownloadFileName(key, file_name) ==
  IF key.content_encoding = "gzip" /\ ~EndsWith(file_name, P_dot_gz)
    THEN file_name \o P_gztmp ELSE file_name

\* command.py 696-699: the file after open(name, 'ab') or open(name, 'wb')
Opened(disk, name, transfer_handler) ==
  IF transfer_handler # "None" /\ name \in DOMAIN disk THEN disk
  ELSE Put(disk, name, <<>>)

\* command.py 696-703: [err, x], the world after get_contents_to_file
GetContentsToFile(x, j, src_uri, name, transfer_handler) ==
  IF j.download_fails
    THEN [err |-> "DownloadError",
          x |-> [Logged(x, "download", src_uri) EXCEPT
                   !.disk = Opened(@, name, transfer_handler)]]
    ELSE [err |-> "ok",
          x |-> [Logged(x, "download", src_uri) EXCEPT
                   !.disk = Put(@, name, x.objects[src_uri].body)]]

\* command.py 710-719: the downloaded file is decompressed into file_name
Uncompressed(x, download_file_name, file_name) ==
  IF ~IsGzip(x.disk[download_file_name])
    THEN [err |-> "IOError", x |-> [x EXCEPT !.disk = Put(@, file_name, <<>>)]]
    ELSE [err |-> "ok",
          x |-> [x EXCEPT !.disk = Drop(Put(@, file_name,
                                            Gunzip(x.disk[download_file_name])),
                                        download_file_name)]]

\* the result of a download that ended as u after bytes_transferred bytes
DownloadResult(u, bytes_transferred) ==
  [err |-> u.err, x |-> u.x,
   bytes_transferred |-> IF u.err = "ok" THEN bytes_transferred ELSE 0]

\* command.py 704-720, g being the outcome of get_contents_to_file
Downloaded(g, download_file_name, file_name, bytes_transferred) ==
  IF g.err # "ok" \/ download_file_name = file_name
    THEN DownloadResult(g, bytes_transferred)
    ELSE DownloadResult(Uncompressed(g.x, download_file_name, file_name),
                        bytes_transferred)

\* DownloadObjectToFile with the handler h chosen at command.py 679-680
DownloadWith(x, j, src_uri, file_name, h) ==
  Downloaded(GetContentsToFile(x, j, src_uri,
                               DownloadFileName(x.objects[src_uri], file_name), h),
             DownloadFileName(x.objects[src_uri], file_name), file_name,
             BytesTransferred(j, Len(x.objects[src_uri].body), h))

\* command.py 678-720 at the level of bytes: [err, x, bytes_transferred]
DownloadObjectToFileBody(x, j, src_uri, file_name) ==
  DownloadWith(x, j, src_uri, file_name,
               GetTransferHandlers(src_uri.scheme, Len(x.objects[src_uri].body),
                                   FALSE, j.resumable_threshold).transfer_handler)

\* command.py 747-749: tmp.close() deletes the staging file; r is the outcome
\* of the try block
Closed(r, size) ==
  [err |-> r.err, x |-> [r.x EXCEPT !.disk = Drop(@, P_stage_tmp)],
   bytes_transferred |-> IF r.err = "ok" THEN size ELSE 0, headers |-> r.headers]

\* command.py 745-746: the upload from the staging file, d being the outcome
\* of the download to it
StagedUpload(d, j, dst_uri, headers) ==
  IF d.err # "ok" THEN Raised(d.err, d.x, headers)
  ELSE UploadFileToObject(d.x, j, P_stage_tmp, dst_uri, headers)

\* command.py 729-752: [err, x, bytes_transferred, headers]
CopyObjToObjDiffProvider(x, j, src_uri, dst_uri, headers) ==
  IF j.free < Len(x.objects[src_uri].body)
    THEN Raised("InadequateTempSpace",
                [x EXCEPT !.disk = Put(@, P_stage_tmp, <<>>)], headers)
    ELSE Closed(StagedUpload(
                  DownloadObjectToFileBody(
                    [x EXCEPT !.disk = Put(@, P_stage_tmp, <<>>)], j, src_uri,
                    P_stage_tmp),
                  j, dst_uri, headers),
                Len(x.objects[src_uri].body))

\* command.py 578-589: one server-side copy_key request
CopyObjToObjSameProvider(x, j, src_uri, dst_uri, headers) ==
  IF j.upload_fails
    THEN Raised("CopyError", Logged(x, "copy_key", dst_uri), headers)
    ELSE [err |-> "ok",
          x |-> [Logged(x, "copy_key", dst_uri) EXCEPT
                   !.objects = Put(@, dst_uri, x.objects[src_uri])],
          bytes_transferred |-> Len(x.objects[src_uri].body),
          headers |-> headers]

\* command.py 722-727: the file key streams the source into the destination
CopyFileToFileBody(x, src_uri, dst_uri, headers) ==
  [err |-> "ok",
   x |-> [Logged(x, "stream", dst_uri) EXCEPT
            !.disk = Put(@, dst_uri.object_name, x.disk[src_uri.object_name])],
   bytes_transferred |-> Len(x.disk[src_uri.object_name]),
   headers |-> headers]

\* the callee shares the dictionary of its caller
SharedHeaders(r, headers) ==
  [err |-> r.err, x |-> r.x, bytes_transferred |-> r.bytes_transferred,
   headers |-> IF "headers" \in DOMAIN r THEN r.headers ELSE headers]

\* command.py 770-775: the strategies work on a copy of the headers, so the
\* dictionary of the caller is afterwards what it was
CopiedHeaders(r, headers) ==
  [err |-> r.err, x |-> r.x, bytes_transferred |-> r.bytes_transferred,
   headers |-> headers]

\* PerformCopy that stages every cloud-to-cloud copy through the client
PerformCopyBodyStaged(x, j, src_uri, dst_uri, headers) ==
  IF IF is_file_uri(src_uri) THEN src_uri.object_name \notin DOMAIN x.disk
     ELSE src_uri \notin DOMAIN x.objects
    THEN Raised("DoesNotExist", x, headers)
  ELSE IF is_cloud_uri(src_uri) /\ is_cloud_uri(dst_uri)
    THEN CopiedHeaders(CopyObjToObjDiffProvider(x, j, src_uri, dst_uri, headers),
                       headers)
  ELSE IF is_file_uri(src_uri) /\ is_cloud_uri(dst_uri)
    THEN CopiedHeaders(UploadFileToObject(x, j, src_uri.object_name, dst_uri, headers),
                       headers)
  ELSE IF is_cloud_uri(src_uri)
    THEN CopiedHeaders(DownloadObjectToFileBody(x, j, src_uri, dst_uri.object_name),
                       headers)
  ELSE CopiedHeaders(CopyFileToFileBody(x, src_uri, dst_uri, headers), headers)

\* command.py 754-800 at the level of bytes: [err, x, bytes_transferred,
\* headers], headers being the dictionary of the caller after the call
PerformCopyBody(x, j, src_uri, dst_uri, headers) ==
  IF IF is_file_uri(src_uri) THEN src_uri.object_name \notin DOMAIN x.disk
     ELSE src_uri \notin DOMAIN x.objects
    THEN Raised("DoesNotExist", x, headers)
  ELSE IF is_cloud_uri(src_uri) /\ is_cloud_uri(dst_uri)
    THEN IF src_uri.scheme = dst_uri.scheme
           THEN CopiedHeaders(
                  CopyObjToObjSameProvider(x, j, src_uri, dst_uri, headers), headers)
           ELSE CopiedHeaders(
                  CopyObjToObjDiffProvider(x, j, src_uri, dst_uri, headers), headers)
  ELSE IF is_file_uri(src_uri) /\ is_cloud_uri(dst_uri)
    THEN CopiedHeaders(UploadFileToObject(x, j, src_uri.object_name, dst_uri, headers),
                       headers)
  ELSE IF is_cloud_uri(src_uri)
    THEN CopiedHeaders(DownloadObjectToFileBody(x, j, src_uri, dst_uri.object_name),
                       headers)
  ELSE CopiedHeaders(CopyFileToFileBody(x, src_uri, dst_uri, headers), headers)

(* ----------------------------------------------------------------------- *)
(* CopyObjsCommand as a state machine                                      *)
(* ----------------------------------------------------------------------- *)

VARIABLES
  pc,                 \* position in CopyObjsCommand
  srcs,               \* args[0:len(args)-1], as locators
  dst,                \* args[-1], as a locator
  recurse,            \* -r or -R is among sub_opts
  fs,                 \* the world: local files, directories, cloud objects
  expansion,          \* src_uri_expansion
  base_dst_uri,       \* base_dst_uri
  multi_src_request,  \* multi_src_request
  pos,                \* index of the next pair of the copy loop
  copies,             \* the PerformCopy calls issued so far
  error,              \* the exception that ended the command ("ok": none)
  raised_by,          \* the method that raised it
  job,                \* options and environment of the byte-level transfers
  world,              \* the transfer world [disk, objects, log]
  calls,              \* the byte-level calls made so far, with their results
  matched             \* rm: the URIs of the current argument still to remove

\* the variables of the byte-level transfers and of rm
tvars == <<job, world, calls, matched>>

vars == <<pc, srcs, dst, recurse, fs, expansion, base_dst_uri,
          multi_src_request, pos, copies, error, raised_by, job, world, calls,
          matched>>

\* no byte-level transfer is under way
NoTransfer ==
  /\ job = [resumable_threshold |-> 0]
  /\ world = [disk |-> <<>>, objects |-> <<>>, log |-> <<>>]
  /\ calls = <<>>
  /\ matched = <<>>

\* number of source arguments of a command line
MaxSrcs == 2

\* the world the command starts in
W0 ==
  [files |-> {P_a_b, P_ab_b_f, P_dd_ab, P_dd_bucket_f, P_dir0_file1,
              P_dir0_dir1_file2, P_file0, P_x},
   dirs  |-> {P_a, P_ab, P_ab_b, P_c, P_d, P_dd, P_dd_bucket, P_dir0, P_dir0_dir1},
   objs  |-> {BucketUri("gs", P_bucket, P_o), BucketUri("gs", P_bucket, P_x_y)}]

SrcArgs ==
  <<FileUri(P_file0), FileUri(P_dir0), FileUri(P_a_b), FileUri(P_dot_a_b),
    FileUri(P_a_dot_b), FileUri(P_a_dot_dot_b), FileUri(P_ab), FileUri(P_ab_b),
    FileUri(P_dir0_dir1), FileUri(P_dd_bucket_f), FileUri(P_z_star),
    FileUri(P_file_star),
    BucketUri("gs", P_bucket, P_o), BucketUri("gs", P_bucket, <<>>),
    BucketUri("gs", <<>>, <<>>)>>

DstArgs ==
  {BucketUri("gs", P_bucket, <<>>), BucketUri("gs", P_bucket, P_o),
   BucketUri("gs", P_bucket, P_star), BucketUri("gs", P_bucket, P_o_star),
   BucketUri("gs", P_bucket, P_n_star),
   FileUri(P_a_b), FileUri(P_c_b), FileUri(P_d), FileUri(P_dd), FileUri(P_new), FileUri(P_dot),
   FileUri(P_a_star)}

RECURSIVE SrcListsFrom(_, _)
\* the lists of n sources taken from SrcArgs[k..] in increasing position
SrcListsFrom(k, n) ==
  IF n = 0 THEN {<<>>}
  ELSE UNION {{<<SrcArgs[i]>> \o t : t \in SrcListsFrom(i + 1, n - 1)} :
                i \in k..Len(SrcArgs)}

\* the command lines: 1..MaxSrcs distinct sources
SrcLists == UNION {SrcListsFrom(1, n) : n \in 1..MaxSrcs}

Init ==
  /\ pc = "start"
  /\ srcs \in SrcLists
  /\ dst \in DstArgs
  /\ recurse \in BOOLEAN
  /\ fs = W0
  /\ expansion = <<>>
  /\ base_dst_uri = NoUri
  /\ multi_src_request = FALSE
  /\ pos = 1
  /\ copies = <<>>
  /\ error = "ok"
  /\ raised_by = "none"
  /\ NoTransfer

\* an exception leaves CopyObjsCommand, which catches none
Raise(e, by) ==
  /\ pc' = "failed"
  /\ error' = e
  /\ raised_by' = by

NoRaise == UNCHANGED <<error, raised_by>>

\* the dict iterates its keys in an order of its own
ExpandTo(r) ==
  IF r.err # "ok"
    THEN Raise(r.err, "ExpandWildcardsAndContainers") /\ UNCHANGED expansion
    ELSE /\ \E f \in Permutations(1..Len(r.map)) :
              expansion' = [i \in 1..Len(r.map) |-> r.map[f[i]]]
         /\ pc' = "expanded"
         /\ NoRaise

\* command.py 1064-1065
Expand ==
  /\ pc = "start"
  /\ ExpandTo(ExpandWildcardsAndContainers(fs, srcs, recurse))
  /\ UNCHANGED <<srcs, dst, recurse, fs, base_dst_uri, multi_src_request, pos, copies>>
  /\ UNCHANGED tvars

ErrorCheckTo(r) ==
  IF r.err # "ok"
    THEN Raise(r.err, "ErrorCheckCopyRequest")
         /\ UNCHANGED <<base_dst_uri, multi_src_request>>
    ELSE /\ base_dst_uri' = r.base
         /\ multi_src_request' = r.multi
         /\ pc' = "checked"
         /\ NoRaise

\* command.py 1068-1069
ErrorCheck ==
  /\ pc = "expanded"
  /\ ErrorCheckTo(ErrorCheckCopyRequest(fs, expansion, dst))
  /\ UNCHANGED <<srcs, dst, recurse, fs, expansion, pos, copies>>
  /\ UNCHANGED tvars

AdjustTo(r) ==
  IF r.err # "ok"
    THEN Raise(r.err, "HandleMultiSrcCopyRequst") /\ UNCHANGED <<base_dst_uri, fs>>
    ELSE /\ base_dst_uri' = r.uri
         /\ fs' = r.w
         /\ pc' = "copy"
         /\ NoRaise

\* command.py 1071-1073
Adjust ==
  /\ pc = "checked"
  /\ IF multi_src_request
       THEN AdjustTo(HandleMultiSrcCopyRequst(fs, expansion, base_dst_uri))
       ELSE pc' = "copy" /\ NoRaise /\ UNCHANGED <<base_dst_uri, fs>>
  /\ UNCHANGED <<srcs, dst, recurse, expansion, multi_src_request, pos, copies>>
  /\ UNCHANGED tvars

\* Copied that goes on with the next pair after a failure
CopiedContinue(p, dst_uri, c) ==
  /\ copies' = Append(copies, [key |-> p.src, src |-> p.exp, base |-> base_dst_uri,
                               dst |-> dst_uri, err |-> c.err])
  /\ fs' = c.w
  /\ pos' = pos + 1 /\ pc' = pc /\ NoRaise

\* command.py 1081-1084: PerformCopy was called for pair p and ended as c
Copied(p, dst_uri, c) ==
  /\ copies' = Append(copies, [key |-> p.src, src |-> p.exp, base |-> base_dst_uri,
                               dst |-> dst_uri, err |-> c.err])
  /\ fs' = c.w
  /\ IF c.err # "ok"
       THEN Raise(c.err, "PerformCopy") /\ UNCHANGED pos
       ELSE pos' = pos + 1 /\ pc' = pc /\ NoRaise

\* command.py 1080-1082 for pair p, d being the outcome of ConstructDstUri
CopyTo(p, d) ==
  IF d.err # "ok"
    THEN Raise(d.err, "ConstructDstUri") /\ UNCHANGED <<fs, pos, copies>>
    ELSE Copied(p, d.uri, PerformCopy(fs, p.exp, d.uri))

CopyPair(p) == CopyTo(p, ConstructDstUri(fs, p.src, p.exp, base_dst_uri))

\* command.py 1077-1084: one iteration of the copy loop
CopyNext ==
  /\ pc = "copy"
  /\ pos <= Len(PairsOf(expansion))
  /\ CopyPair(PairsOf(expansion)[pos])
  /\ UNCHANGED <<srcs, dst, recurse, expansion, base_dst_uri, multi_src_request>>
  /\ UNCHANGED tvars

\* the copy loop is exhausted
Finish ==
  /\ pc = "copy"
  /\ pos > Len(PairsOf(expansion))
  /\ pc' = "done"
  /\ UNCHANGED <<srcs, dst, recurse, fs, expansion, base_dst_uri,
                 multi_src_request, pos, copies, error, raised_by>>
  /\ UNCHANGED tvars

Next == Expand \/ ErrorCheck \/ Adjust \/ CopyNext \/ Finish

Spec == Init /\ [][Next]_vars

(* ----------------------------------------------------------------------- *)
(* ErrorCheckCopyRequest on its own: the method applied to every expansion *)
(* map of the bounded shape, whatever expander produced it                 *)
(* ----------------------------------------------------------------------- *)

CheckKeys ==
  {BucketUri("gs", P_bucket, P_o), BucketUri("gs", P_bucket, <<>>),
   BucketUri("gs", <<>>, <<>>), FileUri(P_file0)}

CheckVals ==
  {<<>>, <<BucketUri("gs", P_bucket, P_o)>>, <<BucketUri("gs", <<>>, <<>>)>>,
   <<FileUri(P_file0)>>}

CheckEntries == [key : CheckKeys, vals : CheckVals]

CheckMaps == UNION {[1..n -> CheckEntries] : n \in 1..MaxSrcs}

InitCheck ==
  /\ pc = "expanded"
  /\ srcs = <<>>
  /\ dst \in {BucketUri("gs", P_bucket, <<>>), FileUri(P_d)}
  /\ recurse = FALSE
  /\ fs = W0
  /\ expansion \in CheckMaps
  /\ base_dst_uri = NoUri
  /\ multi_src_request = FALSE
  /\ pos = 1
  /\ copies = <<>>
  /\ error = "ok"
  /\ raised_by = "none"
  /\ NoTransfer

SpecCheck == InitCheck /\ [][ErrorCheck]_vars

(* ----------------------------------------------------------------------- *)
(* The byte-level transfers on their own: UploadFileToObject,              *)
(* DownloadObjectToFile and CopyObjToObjDiffProvider applied to bounded    *)
(* files, objects, options and environments                                *)
(* ----------------------------------------------------------------------- *)

\* longest body of a file or an object
MaxLen == 2

\* resumable_threshold of the boto configuration, in bytes
ResumableThreshold == 2

RECURSIVE BodiesUpTo(_)
\* the bodies of at most n bytes
BodiesUpTo(n) ==
  IF n = 0 THEN {<<>>}
  ELSE BodiesUpTo(n - 1)
       \cup {Append(b, v) : b \in {c \in BodiesUpTo(n - 1) : Len(c) = n - 1},
                            v \in {0, 1}}

Bodies == BodiesUpTo(MaxLen)

\* "a.txt"
P_a_txt == <<"a", ".", "t", "x", "t">>

\* "a.dat"
P_a_dat == <<"a", ".", "d", "a", "t">>

\* "a.gz"
P_a_gz == <<"a", ".", "g", "z">>

\* "n.txt"
P_n_txt == <<"n", ".", "t", "x", "t">>

\* "n.dat"
P_n_dat == <<"n", ".", "d", "a", "t">>

\* "b"
P_b == <<"b">>

\* "b.gz"
P_b_gz == <<"b", ".", "g", "z">>

\* the headers the caller passes
NoHeaders == [content_type |-> "none", content_encoding |-> "none"]

Jobs ==
  [resumable_threshold : {ResumableThreshold},
   gzip_exts : {<<>>, <<P_txt>>},
   guess_type : BOOLEAN,
   canned_acl : {"none", "bogus"},
   free : {0, MaxLen, 2 * MaxLen},
   start_point : 0..MaxLen,
   download_fails : BOOLEAN,
   upload_fails : BOOLEAN]

\* the stored forms of body b: plain, compressed and marked, marked only
StoredForms(b) ==
  {[body |-> b, content_encoding |-> "none"],
   [body |-> Gzip(b), content_encoding |-> "gzip"],
   [body |-> b, content_encoding |-> "gzip"]}

\* the local files and the object of the start: the files hold body b
WorldOf(b, key) ==
  [disk |-> (P_a_txt :> b) @@ (P_a_dat :> b) @@ (P_a_gz :> b),
   objects |-> (BucketUri("gs", P_bucket, P_o) :> key),
   log |-> <<>>]

\* no copy command is under way
NoCopy ==
  /\ pc = "none"
  /\ srcs = <<>>
  /\ dst = NoUri
  /\ recurse = FALSE
  /\ fs = W0
  /\ expansion = <<>>
  /\ base_dst_uri = NoUri
  /\ multi_src_request = FALSE
  /\ pos = 1
  /\ copies = <<>>
  /\ error = "ok"
  /\ raised_by = "none"

copyvars == <<pc, srcs, dst, recurse, fs, expansion, base_dst_uri,
              multi_src_request, pos, copies, error, raised_by>>

InitTransfer ==
  /\ NoCopy
  /\ job \in Jobs
  /\ \E b \in Bodies : \E key \in StoredForms(b) : world = WorldOf(b, key)
  /\ calls = <<>>
  /\ matched = <<>>

\* command.py 1084: total_bytes_transferred after a further transfer
TotalBytesTransferred(cs, bytes_transferred) ==
  (IF cs = <<>> THEN 0 ELSE cs[Len(cs)].total) + bytes_transferred

\* the call op(src, dst) made in the current world ended as r, the headers
\* dictionary of the caller being as given
Called(op, from, to, r, headers) ==
  /\ calls' = Append(calls, [op |-> op, src |-> from, dst |-> to, err |-> r.err,
                             bytes_transferred |-> r.bytes_transferred,
                             total |-> TotalBytesTransferred(calls, r.bytes_transferred),
                             headers |-> headers,
                             logged |-> Len(world.log), before |-> world])
  /\ world' = r.x
  /\ UNCHANGED <<job, matched, copyvars>>

\* UploadFileToObject changes the headers dictionary it is given
UploadCalled(src_name, dst_uri, r) ==
  Called("UploadFileToObject", src_name, dst_uri, r, r.headers)

\* a local file is uploaded: the first of a batch, or the second, another
\* file to another object, after the first has returned
Upload ==
  /\ \/ calls = <<>>
     \/ Len(calls) = 1 /\ calls[1].op = "UploadFileToObject" /\ calls[1].err = "ok"
  /\ \E src_name \in {P_a_txt, P_a_dat, P_a_gz} :
       \E dst_uri \in {BucketUri("gs", P_bucket, P_n_txt),
                       BucketUri("s3", P_bucket, P_n_dat)} :
         /\ calls # <<>> => src_name # calls[1].src /\ dst_uri # calls[1].dst
         /\ UploadCalled(src_name, dst_uri,
                         UploadFileToObject(world, job, src_name, dst_uri, NoHeaders))

\* an object is downloaded: the object of the start, or the one just uploaded
Download ==
  /\ \/ calls = <<>>
     \/ Len(calls) = 1 /\ calls[1].op = "UploadFileToObject" /\ calls[1].err = "ok"
  /\ \E src_uri \in DOMAIN world.objects : \E file_name \in {P_b, P_b_gz} :
       /\ calls # <<>> => src_uri = calls[1].dst
       /\ Called("DownloadObjectToFile", src_uri, file_name,
                 DownloadObjectToFileBody(world, job, src_uri, file_name), NoHeaders)

PerformCopyCalled(src_uri, dst_uri, r) ==
  Called("PerformCopy", src_uri, dst_uri, r, r.headers)

CopyDiffCalled(src_uri, dst_uri, r) ==
  Called("CopyObjToObjDiffProvider", src_uri, dst_uri, r, r.headers)

\* an object is copied to another provider
CopyDiff ==
  /\ calls = <<>>
  /\ \E src_uri \in DOMAIN world.objects :
       CopyDiffCalled(src_uri, BucketUri("s3", P_bucket, P_n_txt),
                      CopyObjToObjDiffProvider(world, job, src_uri,
                                               BucketUri("s3", P_bucket, P_n_txt),
                                               NoHeaders))

\* the sources and destinations of the PerformCopy calls
CopySrcs ==
  {FileUri(P_a_txt), FileUri(P_a_gz), FileUri(P_b),
   BucketUri("gs", P_bucket, P_o), BucketUri("gs", P_bucket, P_n_dat)}

CopyDsts ==
  {BucketUri("gs", P_bucket, P_n_txt), BucketUri("s3", P_bucket, P_n_txt),
   FileUri(P_b)}

\* command.py 1077-1084: PerformCopy is called for a pair of the batch, the
\* first, or the second after the first has returned, with the headers of the
\* command
Copy ==
  /\ \/ calls = <<>>
     \/ Len(calls) = 1 /\ calls[1].op = "PerformCopy" /\ calls[1].err = "ok"
  /\ \E src_uri \in CopySrcs : \E dst_uri \in CopyDsts :
       /\ src_uri # dst_uri
       /\ calls # <<>> => src_uri # calls[1].src /\ dst_uri # calls[1].dst
       /\ PerformCopyCalled(src_uri, dst_uri,
                  PerformCopyBody(world, job, src_uri, dst_uri,
                                  IF calls = <<>> THEN NoHeaders
                                  ELSE calls[Len(calls)].headers))

NextTransfer == Upload \/ Download \/ CopyDiff \/ Copy

SpecTransfer == InitTransfer /\ [][NextTransfer]_vars

(* ----------------------------------------------------------------------- *)
(* GetTransferHandlers on its own: the method applied to bounded sizes,    *)
(* thresholds, providers and directions, for several locators              *)
(* ----------------------------------------------------------------------- *)

InitHandlers ==
  /\ NoCopy
  /\ job \in [scheme : {"gs", "s3"}, file_size : 0..(MaxLen + 1), upload : BOOLEAN,
              resumable_threshold : 0..(MaxLen + 1)]
  /\ world = [disk |-> <<>>, objects |-> <<>>, log |-> <<>>]
  /\ calls = <<>>
  /\ matched = <<>>

\* self.GetTransferHandlers(uri, key, file_size, upload) is called
SelectHandlers ==
  /\ Len(calls) < 2
  /\ \E uri \in {BucketUri(job.scheme, P_bucket, P_o),
                 BucketUri(job.scheme, P_bucket, P_x_y)} :
       calls' = Append(calls,
                       [op |-> "GetTransferHandlers", uri |-> uri,
                        r |-> GetTransferHandlers(uri.scheme, job.file_size,
                                                  job.upload,
                                                  job.resumable_threshold)])
  /\ UNCHANGED <<job, world, matched, copyvars>>

SpecHandlers == InitHandlers /\ [][SelectHandlers]_vars

(* ----------------------------------------------------------------------- *)
(* RemoveObjsCommand as a state machine (command.py 1371-1407)             *)
(* ----------------------------------------------------------------------- *)

\* the arguments of rm
RmArgs ==
  {BucketUri("gs", P_bucket, P_o), BucketUri("gs", P_bucket, P_x_y),
   BucketUri("gs", P_bucket, P_star), BucketUri("gs", P_bucket, <<>>),
   FileUri(P_file0), FileUri(P_file_star), FileUri(P_dir0)}

\* the names whose deletion the environment may refuse
Deletable ==
  {BucketUri("gs", P_bucket, P_o), BucketUri("gs", P_bucket, P_x_y),
   FileUri(P_file0)}

RmArgLists == UNION {[1..n -> RmArgs] : n \in 1..MaxSrcs}

InitRemove ==
  /\ pc = "rm_arg"
  /\ srcs \in RmArgLists
  /\ dst = NoUri
  /\ recurse = FALSE
  /\ fs = W0
  /\ expansion = <<>>
  /\ base_dst_uri = NoUri
  /\ multi_src_request = FALSE
  /\ pos = 1
  /\ copies = <<>>
  /\ error = "ok"
  /\ raised_by = "none"
  /\ job \in [continue_on_error : BOOLEAN, fails : SUBSET Deletable]
  /\ world = [disk |-> <<>>, objects |-> <<>>, log |-> <<>>]
  /\ calls = <<>>
  /\ matched = <<>>

\* what rm leaves alone
rmfixed == <<srcs, dst, recurse, expansion, base_dst_uri, multi_src_request,
             copies, job, world>>

\* "for uri_str in args": the iterator of the next argument is made
RemoveExpand ==
  /\ pc = "rm_arg"
  /\ pos <= Len(srcs)
  /\ matched' = CmdWildcardIterator(fs, srcs[pos])
  /\ pc' = "rm_uri"
  /\ UNCHANGED <<pos, fs, calls, error, raised_by>>
  /\ UNCHANGED rmfixed

\* the world after uri.delete_key(): the key is gone unless the call raised
delete_key(w, uri, fails) ==
  IF uri \in fails THEN w
  ELSE [w EXCEPT !.files = @ \ (IF uri.scheme = "file" THEN {Canon(uri.object_name)} ELSE {}),
                 !.objs = @ \ {uri}]

\* the record of one delete_key call
DeleteCall(uri, fails) ==
  [op |-> "delete_key", uri |-> uri,
   err |-> IF uri \in fails THEN "DeleteError" ELSE "ok"]

\* the except clause re-raises whatever -f is
ReraiseAlways(uri, fails, continue_on_error) == uri \in fails

\* "except Exception, e: if not continue_on_error: raise"
Reraise(uri, fails, continue_on_error) ==
  uri \in fails /\ ~continue_on_error

\* the body of the inner loop for a name that is no container
RemoveUri(uri) ==
  /\ calls' = Append(calls, DeleteCall(uri, job.fails))
  /\ fs' = delete_key(fs, uri, job.fails)
  /\ IF Reraise(uri, job.fails, job.continue_on_error)
       THEN Raise("DeleteError", "delete_key") /\ UNCHANGED matched
       ELSE /\ matched' = Tail(matched)
            /\ UNCHANGED <<pc, error, raised_by>>

\* the check of rm that skips containers under -f
RefusesUnlessForced(w, uri, continue_on_error) ==
  names_container(w, uri) /\ ~continue_on_error

\* command.py 1393-1400: rm refuses a name that names a container
Refuses(w, uri, continue_on_error) == names_container(w, uri)

\* "for uri in self.CmdWildcardIterator(uri_str)": one turn of the inner loop,
\* or its end
RemoveNext ==
  /\ pc = "rm_uri"
  /\ IF matched = <<>>
       THEN /\ pos' = pos + 1
            /\ pc' = "rm_arg"
            /\ UNCHANGED <<matched, fs, calls, error, raised_by>>
       ELSE /\ UNCHANGED pos
            /\ IF Refuses(fs, Head(matched), job.continue_on_error)
                 THEN /\ Raise("WillNotRemoveBuckets", "RemoveObjsCommand")
                      /\ UNCHANGED <<matched, fs, calls>>
                 ELSE RemoveUri(Head(matched))
  /\ UNCHANGED rmfixed

\* the outer loop is exhausted
RemoveFinish ==
  /\ pc = "rm_arg"
  /\ pos > Len(srcs)
  /\ pc' = "done"
  /\ UNCHANGED <<pos, matched, fs, calls, error, raised_by>>
  /\ UNCHANGED rmfixed

NextRemove == RemoveExpand \/ RemoveNext \/ RemoveFinish

SpecRemove == InitRemove /\ [][NextRemove]_vars

(* ----------------------------------------------------------------------- *)
(* UpdateCommand as a state machine (command.py 375-459)                   *)
(* The world is [sigint: the disposition of SIGINT, masked: SIG_IGN was    *)
(* installed, installed: what gsutil_bin_dir holds, ignored: the number of *)
(* interrupts that were ignored].                                          *)
(* ----------------------------------------------------------------------- *)

\* number of interrupts that arrive during one update
MaxInterrupts == 1

InitUpdate ==
  /\ pc = "update"
  /\ srcs = <<>>
  /\ dst = NoUri
  /\ recurse = FALSE
  /\ fs = W0
  /\ expansion = <<>>
  /\ base_dst_uri = NoUri
  /\ multi_src_request = FALSE
  /\ pos = 1
  /\ copies = <<>>
  /\ error = "ok"
  /\ raised_by = "none"
  /\ job \in [force_update : BOOLEAN, latest_installed : BOOLEAN, answer : {"y", "n"},
              mkdtemp_fails : BOOLEAN, extract_fails : BOOLEAN,
              rename_fails : {"none", "old", "new"}]
  /\ world = [sigint |-> "SIG_DFL", masked |-> FALSE, installed |-> "old",
              ignored |-> 0]
  /\ calls = <<>>
  /\ matched = <<>>

\* what UpdateCommand leaves alone
updatefixed == <<srcs, dst, recurse, fs, expansion, base_dst_uri, multi_src_request,
                 pos, copies, job, calls, matched>>

\* command.py 388-426: the version check and the question; the command goes
\* on only with a newer version (or -f) and the answer yes
UpdateProceed ==
  /\ pc = "update"
  /\ IF ~job.force_update /\ job.latest_installed
       THEN Raise("LatestVersionInstalled", "UpdateCommand")
     ELSE IF job.answer # "y"
       THEN Raise("NotRunningUpdate", "UpdateCommand")
     ELSE pc' = "mask" /\ NoRaise
  /\ UNCHANGED world
  /\ UNCHANGED updatefixed

\* command.py 430-443: SIGINT is ignored from here on, then the sibling
\* directories are made
UpdateMask ==
  /\ pc = "mask"
  /\ world' = [world EXCEPT !.sigint = "SIG_IGN", !.masked = TRUE]
  /\ IF job.mkdtemp_fails
       THEN Raise("OSError", "mkdtemp")
       ELSE pc' = "extract" /\ NoRaise
  /\ UNCHANGED updatefixed

\* command.py 444-448: the tarball is extracted into new_dir
UpdateExtract ==
  /\ pc = "extract"
  /\ IF job.extract_fails
       THEN Raise("UpdateFailed", "UpdateCommand")
       ELSE pc' = "rename" /\ NoRaise
  /\ UNCHANGED world
  /\ UNCHANGED updatefixed

\* command.py 450-452: the old installation is moved aside and the new one
\* into its place
UpdateRename ==
  /\ pc = "rename"
  /\ IF job.rename_fails = "old"
       THEN Raise("OSError", "rename") /\ UNCHANGED world
     ELSE IF job.rename_fails = "new"
       THEN /\ Raise("OSError", "rename")
            /\ world' = [world EXCEPT !.installed = "none"]
     ELSE /\ pc' = "restore" /\ NoRaise
          /\ world' = [world EXCEPT !.installed = "new"]
  /\ UNCHANGED updatefixed

\* command.py 453-455: the clean-up, then SIGINT gets its default handling
UpdateRestore ==
  /\ pc = "restore"
  /\ world' = [world EXCEPT !.sigint = "SIG_DFL"]
  /\ pc' = "done" /\ NoRaise
  /\ UNCHANGED updatefixed

\* SIGINT arrives while UpdateCommand runs: KeyboardInterrupt under the
\* default handling, nothing when it is ignored
Interrupt ==
  /\ pc \in {"update", "mask", "extract", "rename", "restore"}
  /\ world.ignored < MaxInterrupts
  /\ IF world.sigint = "SIG_DFL"
       THEN Raise("KeyboardInterrupt", "SIGINT") /\ UNCHANGED world
       ELSE /\ world' = [world EXCEPT !.ignored = @ + 1]
            /\ UNCHANGED <<pc, error, raised_by>>
  /\ UNCHANGED updatefixed

NextUpdate ==
  \/ UpdateProceed \/ UpdateMask \/ UpdateExtract \/ UpdateRename
  \/ UpdateRestore \/ Interrupt

SpecUpdate == InitUpdate /\ [][NextUpdate]_vars

(* ----------------------------------------------------------------------- *)
(* MoveObjsCommand as a state machine (command.py 1303-1346): the checks   *)
(* and the expansion of the arguments, then CopyObjsCommand, then          *)
(* RemoveObjsCommand on the expanded sources                               *)
(* ----------------------------------------------------------------------- *)

\* the arguments of mv
MvSrcArgs ==
  {FileUri(P_file0), FileUri(P_file_star), FileUri(P_x), FileUri(P_dir0),
   BucketUri("gs", P_bucket, P_o), BucketUri("gs", P_bucket, P_star)}

MvDstArgs ==
  {BucketUri("gs", P_bucket, <<>>), BucketUri("gs", P_bucket, P_o),
   BucketUri("gs", P_bucket, P_n_star), FileUri(P_d), FileUri(P_new)}

InitMove ==
  /\ pc = "mv"
  /\ srcs \in UNION {[1..n -> MvSrcArgs] : n \in 1..MaxSrcs}
  /\ dst \in MvDstArgs
  /\ recurse = FALSE
  /\ fs = W0
  /\ expansion = <<>>
  /\ base_dst_uri = NoUri
  /\ multi_src_request = FALSE
  /\ pos = 1
  /\ copies = <<>>
  /\ error = "ok"
  /\ raised_by = "none"
  /\ \E f \in SUBSET {FileUri(P_file0), BucketUri("gs", P_bucket, P_o)} :
       job = [phase |-> "cp", args |-> srcs, continue_on_error |-> FALSE, fails |-> f]
  /\ world = [disk |-> <<>>, objects |-> <<>>, log |-> <<>>]
  /\ calls = <<>>
  /\ matched = <<>>

RECURSIVE ExpArgList(_, _)
\* command.py 1337-1343: exp_arg_list, every argument with a wildcard
\* replaced by its matches
ExpArgList(w, args) ==
  IF args = <<>> THEN <<>>
  ELSE (IF ContainsWildcard(Head(args)) THEN CmdWildcardIterator(w, Head(args))
        ELSE <<Head(args)>>)
       \o ExpArgList(w, Tail(args))

\* command.py 1318-1345: mv refuses a container as first source and a
\* singleton as destination of several sources, then hands the expanded
\* arguments to CopyObjsCommand
MoveStart ==
  /\ pc = "mv"
  /\ IF names_container(fs, srcs[1])
       THEN Raise("WillNotRemoveSource", "MoveObjsCommand") /\ UNCHANGED <<srcs, dst>>
     ELSE IF Len(srcs) > 1 /\ names_singleton(fs, dst)
       THEN Raise("MustNameContainer", "MoveObjsCommand") /\ UNCHANGED <<srcs, dst>>
     ELSE IF ExpArgList(fs, Append(srcs, dst)) = <<>>
       THEN Raise("IndexError", "CopyObjsCommand") /\ UNCHANGED <<srcs, dst>>
     ELSE /\ srcs' = SubSeq(ExpArgList(fs, Append(srcs, dst)), 1,
                            Len(ExpArgList(fs, Append(srcs, dst))) - 1)
          /\ dst' = ExpArgList(fs, Append(srcs, dst))[Len(ExpArgList(fs, Append(srcs, dst)))]
          /\ pc' = "start"
          /\ NoRaise
  /\ UNCHANGED <<recurse, fs, expansion, base_dst_uri, multi_src_request, pos, copies>>
  /\ UNCHANGED tvars

\* MoveRemove that goes on to the removal when the copy phase has failed
MoveRemoveAnyway ==
  /\ pc \in {"done", "failed"} /\ job.phase = "cp" /\ raised_by # "MoveObjsCommand"
  /\ job' = [job EXCEPT !.phase = "rm"]
  /\ pc' = "rm_arg"
  /\ pos' = 1
  /\ UNCHANGED <<srcs, dst, recurse, fs, expansion, base_dst_uri, multi_src_request,
                 copies, error, raised_by, world, calls, matched>>

\* command.py 1345-1346: CopyObjsCommand has returned, RemoveObjsCommand is
\* called with the expanded sources
MoveRemove ==
  /\ pc = "done" /\ job.phase = "cp"
  /\ job' = [job EXCEPT !.phase = "rm"]
  /\ pc' = "rm_arg"
  /\ pos' = 1
  /\ UNCHANGED <<srcs, dst, recurse, fs, expansion, base_dst_uri, multi_src_request,
                 copies, error, raised_by, world, calls, matched>>

NextMove ==
  \/ MoveStart
  \/ Expand \/ ErrorCheck \/ Adjust \/ CopyNext \/ Finish
  \/ MoveRemove
  \/ RemoveExpand \/ RemoveNext \/ RemoveFinish

SpecMove == InitMove /\ [][NextMove]_vars

(* ----------------------------------------------------------------------- *)
(* Properties                                                              *)
(* ----------------------------------------------------------------------- *)

\* ErrorCheckCopyRequest has run
Validated ==
  pc \notin {"start", "expanded"} /\ raised_by # "ExpandWildcardsAndContainers"

\* the exception ErrorCheckCopyRequest raised, "ok" when it returned
CheckError == IF raised_by = "ErrorCheckCopyRequest" THEN error ELSE "ok"

\* the base destination ErrorCheckCopyRequest computes: it runs in world W0
CheckedBase == BaseDstUri(W0, dst)

\* the destination ErrorCheckCopyRequest computes for pair p
CheckedDst(p) == ConstructDstUri(W0, p.src, p.exp, CheckedBase.base)

\* the checks that precede the loop over the pairs all passed
ReachedPairs ==
  /\ Validated
  /\ ~(\E i \in 1..Len(expansion) :
         expansion[i].key.scheme # "file" /\ expansion[i].key.bucket_name = <<>>)
  /\ CheckedBase.err = "ok"
  /\ \E i \in 1..Len(expansion) : expansion[i].vals # <<>>
  /\ CheckError # "MustNameContainer"

RECURSIVE CollapseDotSegs(_)
\* every "/./" of s collapsed to "/"
CollapseDotSegs(s) ==
  IF Find(s, <<SEP, ".", SEP>>) = -1 THEN s
  ELSE CollapseDotSegs(Slice(s, 1, Find(s, <<SEP, ".", SEP>>))
                       \o From(s, Find(s, <<SEP, ".", SEP>>) + 3))

\* a leading "./" stripped
StripLeadingDotSep(s) == IF IsPrefixAt(<<".", SEP>>, s, 1) THEN From(s, 3) ELSE s

\* the './' normalization of a local path
DotNormal(s) == StripLeadingDotSep(CollapseDotSegs(s))

\* source and destination name the same object: two local paths equal after
\* './' normalization, any other pair equal as URI strings
SameObject(src_uri, dst_uri) ==
  IF src_uri.scheme = "file" /\ dst_uri.scheme = "file"
    THEN DotNormal(src_uri.object_name) = DotNormal(dst_uri.object_name)
    ELSE UriStr(src_uri) = UriStr(dst_uri)

\* C1: whenever the loop over the pairs is reached, every destination can be
\* constructed, and some pair's concrete source and destination are the same
\* object (local paths compared after './' normalization), ErrorCheckCopyRequest
\* raises the same-object exception
C1_SameObjectRejected ==
  (/\ ReachedPairs
   /\ \A i \in 1..Len(PairsOf(expansion)) :
        CheckedDst(PairsOf(expansion)[i]).err = "ok"
   /\ \E i \in 1..Len(PairsOf(expansion)) :
        SameObject(PairsOf(expansion)[i].exp, CheckedDst(PairsOf(expansion)[i]).uri))
  => CheckError = "SameObject"

\* C2: ErrorCheckCopyRequest raises the same-object exception only if some
\* pair's concrete source and destination are the same object after './'
\* normalization
C2_SameObjectOnlyIfIdentical ==
  (Validated /\ CheckError = "SameObject")
  => \E i \in 1..Len(PairsOf(expansion)) :
       /\ CheckedDst(PairsOf(expansion)[i]).err = "ok"
       /\ SameObject(PairsOf(expansion)[i].exp, CheckedDst(PairsOf(expansion)[i]).uri)

\* C3: when ErrorCheckCopyRequest raises, no PerformCopy call has been issued
\* and the world is untouched; and once a PerformCopy call has been issued,
\* every preflight check has been evaluated and has passed
C3_ChecksBeforeAnyCopy ==
  /\ raised_by = "ErrorCheckCopyRequest" => (copies = <<>> /\ fs = W0)
  /\ copies # <<>> =>
       /\ ReachedPairs
       /\ ~(MultiSrcRequest(expansion) /\ names_singleton(W0, CheckedBase.base))
       /\ \A i \in 1..Len(PairsOf(expansion)) :
            /\ CheckedDst(PairsOf(expansion)[i]).err = "ok"
            /\ ~SrcDstSame(PairsOf(expansion)[i].exp,
                           CheckedDst(PairsOf(expansion)[i]).uri)

C3_Witness ==
  pc = "failed" /\ raised_by = "ErrorCheckCopyRequest" /\ error = "SameObject"
  /\ Len(PairsOf(expansion)) > 1

\* C4: once the provider-only and destination checks have passed,
\* ErrorCheckCopyRequest raises 'Nothing to copy' if and only if every list
\* of the expansion map is empty
C4_NothingToCopyIffAllEmpty ==
  (/\ Validated
   /\ ~(\E i \in 1..Len(expansion) :
          expansion[i].key.scheme # "file" /\ expansion[i].key.bucket_name = <<>>)
   /\ CheckedBase.err = "ok")
  => (CheckError = "NothingToCopy"
      <=> \A i \in 1..Len(expansion) : expansion[i].vals = <<>>)

C4_Witness ==
  Validated /\ CheckError = "NothingToCopy" /\ Len(expansion) > 1

\* C5: a destination with wildcard characters must have exactly one match,
\* which becomes the base destination; with any other number of matches
\* ErrorCheckCopyRequest raises the ambiguous-destination exception
C5_DstWildcardExactlyOne ==
  (/\ Validated
   /\ ContainsWildcard(dst)
   /\ ~(\E i \in 1..Len(expansion) :
          expansion[i].key.scheme # "file" /\ expansion[i].key.bucket_name = <<>>))
  => /\ Len(CmdWildcardIterator(W0, dst)) # 1 => CheckError = "DstMatchesMany"
     /\ (Len(CmdWildcardIterator(W0, dst)) = 1 /\ pc = "checked")
          => base_dst_uri = CmdWildcardIterator(W0, dst)[1]

\* the map has more than one key, or its single key has more than one locator
ManySources ==
  \/ Len(expansion) > 1
  \/ Len(expansion) = 1 /\ Len(expansion[1].vals) > 1

\* C6: for a map with a non-empty list, the multi-source flag returned is
\* true exactly when the map has more than one key or its single key has more
\* than one concrete locator; and a multi-source request onto a singleton base
\* destination raises 'must name a bucket or directory'
C6_MultiSourceFlag ==
  ((/\ Validated
    /\ ~(\E i \in 1..Len(expansion) :
           expansion[i].key.scheme # "file" /\ expansion[i].key.bucket_name = <<>>)
    /\ CheckedBase.err = "ok"
    /\ \E i \in 1..Len(expansion) : expansion[i].vals # <<>>)
   => /\ CheckError = "ok" => (multi_src_request <=> ManySources)
      /\ (ManySources /\ names_singleton(W0, CheckedBase.base))
           => CheckError = "MustNameContainer")

C6_Witness ==
  /\ Validated /\ CheckError = "MustNameContainer"
  /\ Len(expansion) = 1 /\ Len(expansion[1].vals) > 1

\* a bucket-less cloud locator
ProviderOnly(u) == u.scheme # "file" /\ u.bucket_name = <<>>

LastComponent(s) == Split(s)[Len(Split(s))]

\* the directory of a local base destination and os.sep, nothing for a bucket
BasePrefix(base) ==
  IF base.scheme = "file" THEN base.object_name \o <<SEP>> ELSE <<>>

\* the mirrored key: the last component of the container as typed (trailing
\* separators aside), followed by the member's path below the container
MirroredKey(src_name, exp_name) ==
  LastComponent(RStrip(src_name)) \o From(exp_name, Len(RStrip(src_name)) + 1)

\* C8: for every PerformCopy call whose original source is a container and
\* whose base destination is a container, the destination key is the last
\* path component of the original source followed by the path of the concrete
\* source below that container
C8_Mirroring ==
  \A i \in 1..Len(copies) :
    (/\ names_container(W0, copies[i].key)
     /\ names_container(fs, copies[i].base)
     /\ IsPrefixAt(RStrip(copies[i].key.object_name), copies[i].src.object_name, 1))
    => copies[i].dst =
         clone_replace_name(copies[i].base,
           BasePrefix(copies[i].base)
           \o MirroredKey(copies[i].key.object_name, copies[i].src.object_name))

\* C9: for every PerformCopy call whose original source is a singleton and
\* whose base destination is a container, the destination key is the last
\* path component of the concrete source, below the base directory when the
\* destination is local
C9_Flattening ==
  \A i \in 1..Len(copies) :
    (/\ ~names_container(W0, copies[i].key)
     /\ names_container(fs, copies[i].base))
    => copies[i].dst =
         clone_replace_name(copies[i].base,
           BasePrefix(copies[i].base) \o LastComponent(copies[i].src.object_name))

C9_Witness ==
  \E i \in 1..Len(copies) :
    /\ ~names_container(W0, copies[i].key)
    /\ names_container(fs, copies[i].base)
    /\ copies[i].base.scheme = "file"
    /\ Find(copies[i].src.object_name, <<SEP>>) # -1
    /\ copies[i].err = "ok"

\* gsutil cp -r file0 dir0 gs://bucket
MixedBatch ==
  /\ srcs = <<FileUri(P_file0), FileUri(P_dir0)>>
  /\ recurse
  /\ dst = BucketUri("gs", P_bucket, <<>>)

\* file0 and dir0 each have their own key, dir0's members are under dir0's
OwnKeys ==
  /\ Len(expansion) = 2
  /\ \E i \in 1..2 :
       expansion[i] = [key |-> FileUri(P_file0), vals |-> <<FileUri(P_file0)>>]
  /\ \E i \in 1..2 :
       expansion[i] = [key |-> FileUri(P_dir0),
                       vals |-> <<FileUri(P_dir0_file1), FileUri(P_dir0_dir1_file2)>>]

FileAbove(w, s) == \E p \in SelfAndAncestors(Dirname(s)) : p \in w.files

\* the local path pair p is copied to under the base destination of the
\* preflight
CheckedPath(p) ==
  CheckedBase.base.object_name \o <<SEP>> \o DstKeyName(W0, p.src, p.exp)

\* C11: when the base destination is a local directory and the destination
\* path of some pair needs a directory where a regular file exists (at any
\* component), or is itself an existing directory, the command ends with an
\* exception of the preflight (the conflict, or same-object for another pair)
\* and has changed nothing in the file system
C11_ConflictRejected ==
  (/\ pc \in {"done", "failed"}
   /\ ReachedPairs
   /\ is_file_uri(CheckedBase.base) /\ names_container(W0, CheckedBase.base)
   /\ \E i \in 1..Len(PairsOf(expansion)) :
        \/ FileAbove(W0, CheckedPath(PairsOf(expansion)[i]))
        \/ IsDir(W0, CheckedPath(PairsOf(expansion)[i])))
  => /\ raised_by = "ErrorCheckCopyRequest"
     /\ error \in {"DirFileConflict", "SameObject"}
     /\ fs = W0

\* C12: after every call of CopyObjToObjDiffProvider, however it ended, the
\* staging file is gone; and when the free space is less than the size of the
\* source object the call fails without having started a download or an upload
C12_StagingFileDeleted ==
  \A i \in 1..Len(calls) :
    calls[i].op = "CopyObjToObjDiffProvider"
    => /\ P_stage_tmp \notin DOMAIN world.disk
       /\ job.free < Len(calls[i].before.objects[calls[i].src].body)
            => /\ calls[i].err = "InadequateTempSpace"
               /\ world.log = calls[i].before.log

\* the object stored by the i-th call
StoredBy(i) == world.objects[calls[i].dst]

\* the body of the file the i-th call uploaded
SourceOf(i) == calls[i].before.disk[calls[i].src]

\* the i-th call is an upload that returned
Uploaded(i) == calls[i].op = "UploadFileToObject" /\ calls[i].err = "ok"

\* C13: an upload that returns has stored the compressed body with the gzip
\* marker if the extension of the destination object name is in the -z list,
\* and the unmodified body without the gzip marker otherwise
C13_GzipByDestinationExt ==
  \A i \in 1..Len(calls) :
    Uploaded(i)
    => IF HasExtIn(calls[i].dst.object_name, job.gzip_exts)
         THEN StoredBy(i) = [body |-> Gzip(SourceOf(i)), content_encoding |-> "gzip"]
         ELSE /\ StoredBy(i).body = SourceOf(i)
              /\ StoredBy(i).content_encoding # "gzip"

\* the i-th call is an upload that entered the compressing path
Compressing(i) ==
  /\ calls[i].op = "UploadFileToObject"
  /\ calls[i].err # "InvalidCannedACL"
  /\ HasExtIn(calls[i].src, job.gzip_exts)

\* C14: an upload on the compressing path with less free space than twice
\* the size of the source fails with the inadequate-temp-space exception, has
\* started no upload and has not set the gzip header; and after every upload on
\* the compressing path, however it ended, the compressed temporary file is gone
C14_GzipPreflightAndCleanup ==
  \A i \in 1..Len(calls) :
    Compressing(i)
    => /\ job.free < 2 * Len(SourceOf(i))
            => /\ calls[i].err = "InadequateTempSpace"
               /\ world.log = calls[i].before.log
               /\ calls[i].headers.content_encoding # "gzip"
       /\ P_gzip_tmp \notin DOMAIN world.disk

\* the i-th call uploaded a.txt under -z txt and returned
UploadedTxt(i) ==
  /\ Uploaded(i)
  /\ calls[i].src = P_a_txt
  /\ HasExtIn(P_a_txt, job.gzip_exts)

\* the i-th call is a download that returned
DownloadedOk(i) == calls[i].op = "DownloadObjectToFile" /\ calls[i].err = "ok"

\* C15: a .txt source uploaded with -z txt is stored with the gzip marker;
\* a download of that object to a name not ending in .gz leaves the bytes of
\* the source at that name and no '_.gztmp' sibling; a download to a name
\* ending in .gz, or of an object without the marker, writes the stored bytes
C15_GzipRoundTrip ==
  /\ \A i \in 1..Len(calls) :
       UploadedTxt(i) => StoredBy(i).content_encoding = "gzip"
  /\ (Len(calls) = 2 /\ UploadedTxt(1) /\ DownloadedOk(2)
      /\ ~EndsWith(calls[2].dst, P_dot_gz))
     => /\ world.disk[calls[2].dst] = SourceOf(1)
        /\ (calls[2].dst \o P_gztmp) \notin DOMAIN world.disk
  /\ \A i \in 1..Len(calls) :
       (/\ DownloadedOk(i)
        /\ \/ EndsWith(calls[i].dst, P_dot_gz)
           \/ calls[i].before.objects[calls[i].src].content_encoding # "gzip")
       => world.disk[calls[i].dst] = calls[i].before.objects[calls[i].src].body

C15_Witness ==
  /\ Len(calls) = 2 /\ UploadedTxt(1) /\ DownloadedOk(2)
  /\ calls[2].dst = P_b
  /\ Len(SourceOf(1)) = MaxLen
  /\ StoredBy(1).body # SourceOf(1)
  /\ world.disk[P_b] = SourceOf(1)

\* C16: the PerformCopy calls are issued for the pairs of the expansion map
\* one after the other in iteration order; a call that fails is the last one,
\* its exception ends the command, and no later pair is transferred
C16_BatchAbort ==
  /\ Len(copies) <= Len(PairsOf(expansion))
  /\ \A i \in 1..Len(copies) :
       /\ copies[i].src = PairsOf(expansion)[i].exp
       /\ copies[i].err # "ok"
            => /\ i = Len(copies)
               /\ pc = "failed"
               /\ raised_by = "PerformCopy"
               /\ error = copies[i].err
  /\ pc = "done" => Len(copies) = Len(PairsOf(expansion))

C16_Witness ==
  /\ pc = "failed"
  /\ Len(copies) > 1
  /\ copies[Len(copies)].err # "ok"
  /\ Len(copies) < Len(PairsOf(expansion))

\* a deletion that failed was the last one attempted, and ended rm
StopsAtFirstFailure ==
  \A i \in 1..Len(calls) :
    calls[i].err # "ok"
      => i = Len(calls) /\ pc = "failed" /\ error = calls[i].err

\* one turn of the inner loop of rm for a name that is no container
RemovesHead ==
  (pc = "rm_uri" /\ matched # <<>> /\ ~names_container(fs, Head(matched)))
    => /\ Len(calls') = Len(calls) + 1
       /\ calls'[Len(calls')].uri = Head(matched)
       /\ job.continue_on_error => pc' = "rm_uri" /\ matched' = Tail(matched)

\* C17: with -f, rm attempts the deletion of every name its iterators yield
\* that is no container, whether or not earlier deletions failed, and raises
\* only for a container; without -f the first deletion that fails is the last
\* one attempted and its exception ends the command
C17_ContinueOnError ==
  /\ [](job.continue_on_error /\ pc = "failed" => error = "WillNotRemoveBuckets")
  /\ [](~job.continue_on_error => StopsAtFirstFailure)
  /\ [][RemovesHead]_vars

C17_Witness ==
  /\ job.continue_on_error
  /\ pc = "done"
  /\ \E i \in 1..Len(calls) : \E k \in 1..Len(calls) :
       i < k /\ calls[i].err # "ok" /\ calls[k].err = "ok"

\* boto offers resumable transfers in this direction to this provider
ProviderSupportsResumable(scheme, upload) == ~upload \/ scheme = "gs"

\* the handler the claimed rule selects
ClaimedHandler(j) ==
  IF j.file_size >= j.resumable_threshold /\ ProviderSupportsResumable(j.scheme, j.upload)
    THEN IF j.upload THEN "ResumableUploadHandler" ELSE "ResumableDownloadHandler"
    ELSE "None"

TransferKind(i) ==
  IF calls[i].op = "PerformCopy"
    THEN IF is_file_uri(calls[i].src) /\ is_cloud_uri(calls[i].dst)
           THEN "UploadFileToObject"
         ELSE IF is_cloud_uri(calls[i].src) /\ is_file_uri(calls[i].dst)
           THEN "DownloadObjectToFile"
         ELSE IF is_cloud_uri(calls[i].src) THEN "CopyObjToObj"
         ELSE "CopyFileToFile"
    ELSE calls[i].op

\* the local path the i-th call reads, when it reads a file
SourcePath(i) ==
  IF calls[i].op = "PerformCopy" THEN calls[i].src.object_name ELSE calls[i].src

\* the size S of what the i-th call transfers: the file handed to
\* set_contents_from_file (the compressed copy on the compressing path), the
\* file streamed, or the object read
TransferSize(i) ==
  IF TransferKind(i) = "UploadFileToObject"
    THEN IF calls[i].err # "InvalidCannedACL"
            /\ HasExtIn(SourcePath(i), job.gzip_exts)
           THEN Len(Gzip(calls[i].before.disk[SourcePath(i)]))
           ELSE Len(calls[i].before.disk[SourcePath(i)])
  ELSE IF TransferKind(i) = "CopyFileToFile"
    THEN Len(calls[i].before.disk[SourcePath(i)])
  ELSE Len(calls[i].before.objects[calls[i].src].body)

\* the i-th call is a resumable upload or download
ResumableCall(i) ==
  /\ TransferKind(i) \in {"UploadFileToObject", "DownloadObjectToFile"}
  /\ TransferSize(i) >= job.resumable_threshold
  /\ ProviderSupportsResumable(
       IF TransferKind(i) = "UploadFileToObject" THEN calls[i].dst.scheme
       ELSE calls[i].src.scheme,
       TransferKind(i) = "UploadFileToObject")

RECURSIVE SumOfBytes(_)
SumOfBytes(cs) ==
  IF cs = <<>> THEN 0
  ELSE SumOfBytes(SubSeq(cs, 1, Len(cs) - 1)) + cs[Len(cs)].bytes_transferred

\* C19: a transfer that returns reports S - N bytes when it is resumable and
\* resumes from offset N of S, and S bytes otherwise; the running total of the
\* batch is the sum of the values its transfers reported
C19_ByteAccounting ==
  \A i \in 1..Len(calls) :
    /\ calls[i].err = "ok"
         => calls[i].bytes_transferred =
              IF ResumableCall(i)
                THEN TransferSize(i) - StartPoint(job, TransferSize(i))
                ELSE TransferSize(i)
    /\ calls[i].total = SumOfBytes(SubSeq(calls, 1, i))

C19_Witness ==
  /\ Len(calls) = 2
  /\ Uploaded(1) /\ ResumableCall(1)
  /\ 0 < calls[1].bytes_transferred /\ calls[1].bytes_transferred < TransferSize(1)
  /\ Uploaded(2) /\ ~ResumableCall(2) /\ calls[2].bytes_transferred > 0
  /\ calls[2].total = calls[1].bytes_transferred + calls[2].bytes_transferred

\* the name of the container a source names: the bucket, or the directory
ContainerName(u) ==
  IF is_cloud_uri(u) THEN u.bucket_name ELSE Basename(Canon(u.object_name))

\* HandleMultiSrcCopyRequst is about to nest: the first source and the base
\* destination name containers and the destination is a local directory
NestingCase ==
  /\ pc = "checked" /\ multi_src_request
  /\ names_container(fs, expansion[1].key)
  /\ names_container(fs, base_dst_uri)
  /\ is_file_uri(base_dst_uri) /\ Exists(fs, base_dst_uri.object_name)

\* C20: in the nesting case HandleMultiSrcCopyRequst returns the destination
\* with the container name of the first source, bucket or local directory,
\* one level below it; in every other case it returns the base destination
C20_NestsContainerName ==
  [][pc = "checked" /\ multi_src_request /\ pc' = "copy"
       => base_dst_uri' =
            IF NestingCase
              THEN clone_replace_name(base_dst_uri,
                     base_dst_uri.object_name \o <<SEP>>
                       \o ContainerName(expansion[1].key))
              ELSE base_dst_uri]_vars

\* the locator names a directory or a bucket
IsDirOrBucket(w, u) == names_container(w, u) /\ CanClone(u)

\* the pattern a container stands for under -r: '<path>/**' or '<bucket>/*'
RecursivePattern(u) ==
  IF is_file_uri(u) THEN FileUri(u.object_name \o <<SEP>> \o P_starstar)
  ELSE clone_replace_name(u, P_star)

MatchesNothing(w, u) == ~names_container(w, u) /\ CmdWildcardIterator(w, u) = <<>>

\* C22: for a source pattern that matches nothing, local or cloud,
\* ExpandWildcardsAndContainers raises no error and the map it returns holds
\* a key for that source, with the empty list
C22_NoMatchKeepsKey ==
  \A i \in 1..Len(srcs) :
    MatchesNothing(W0, srcs[i])
      => /\ (raised_by = "ExpandWildcardsAndContainers"
               => \E k \in 1..Len(srcs) : ~CanClone(srcs[k]))
         /\ pc = "expanded"
              => \E k \in 1..Len(expansion) :
                   expansion[k].key = srcs[i] /\ expansion[k].vals = <<>>

\* the world after the i-th call
WorldAfter(i) == IF i < Len(calls) THEN calls[i + 1].before ELSE world

\* the requests the i-th call made, in order
RequestsOf(i) ==
  [k \in 1..(Len(WorldAfter(i).log) - calls[i].logged) |->
     WorldAfter(i).log[calls[i].logged + k].op]

\* the source of the i-th call has a key
SourceExists(i) ==
  IF is_file_uri(calls[i].src)
    THEN calls[i].src.object_name \in DOMAIN calls[i].before.disk
    ELSE calls[i].src \in DOMAIN calls[i].before.objects

\* the requests of the claimed strategy for (source, destination)
ClaimedRequests(src_uri, dst_uri) ==
  IF is_cloud_uri(src_uri) /\ is_cloud_uri(dst_uri)
    THEN IF src_uri.scheme = dst_uri.scheme THEN <<"copy_key">>
         ELSE <<"download", "upload">>
  ELSE IF is_cloud_uri(dst_uri) THEN <<"upload">>
  ELSE IF is_cloud_uri(src_uri) THEN <<"download">>
  ELSE <<"stream">>

\* s is a prefix of q
IsPrefixOf(s, q) == Len(s) <= Len(q) /\ s = SubSeq(q, 1, Len(s))

\* C23: PerformCopy fails with 'does not exist', the world untouched, when
\* the source has no key; otherwise it makes the requests of exactly one
\* strategy, all of them when it returns and the first ones when it fails:
\* one server-side copy between objects of one provider, a download then an
\* upload between providers, an upload from a file, a download to a file, a
\* stream copy between files
C23_Dispatch ==
  \A i \in 1..Len(calls) :
    calls[i].op = "PerformCopy"
      => IF SourceExists(i)
           THEN /\ calls[i].err # "DoesNotExist"
                /\ IF calls[i].err = "ok"
                     THEN RequestsOf(i) = ClaimedRequests(calls[i].src, calls[i].dst)
                     ELSE IsPrefixOf(RequestsOf(i),
                                     ClaimedRequests(calls[i].src, calls[i].dst))
           ELSE /\ calls[i].err = "DoesNotExist"
                /\ WorldAfter(i) = calls[i].before

C23_Witness ==
  /\ Len(calls) = 2
  /\ calls[1].op = "PerformCopy" /\ calls[1].err = "ok"
  /\ is_cloud_uri(calls[1].src) /\ calls[1].src.scheme = calls[1].dst.scheme
  /\ RequestsOf(1) = <<"copy_key">>
  /\ calls[2].op = "PerformCopy" /\ calls[2].err = "DoesNotExist"

\* the concrete sources of a world
ConcreteSources(w) == {FileUri(f) : f \in w.files} \cup w.objs

\* C24: for a base destination that names a singleton, ConstructDstUri returns
\* the base destination, without raising a conflict, for every original and
\* every concrete source; so does every call of the copy loop
C24_SingletonBase ==
  /\ names_singleton(fs, base_dst_uri)
       => \A i \in 1..Len(SrcArgs) : \A e \in ConcreteSources(fs) :
            ConstructDstUri(fs, SrcArgs[i], e, base_dst_uri)
              = [err |-> "ok", uri |-> base_dst_uri]
  /\ \A i \in 1..Len(copies) :
       names_singleton(W0, copies[i].base) => copies[i].dst = copies[i].base

C24_Witness ==
  /\ pc = "done" /\ Len(copies) = 1
  /\ is_file_uri(base_dst_uri) /\ names_singleton(W0, base_dst_uri)
  /\ copies[1].err = "ok" /\ copies[1].dst = base_dst_uri
  /\ Basename(copies[1].src.object_name) # Basename(base_dst_uri.object_name)

\* the i-th call is a PerformCopy that started a strategy
Dispatched(i) == calls[i].op = "PerformCopy" /\ calls[i].err # "DoesNotExist"

\* the headers an upload of the named file sets on its own
OwnEncoding(name) ==
  \/ job.guess_type /\ GuessType(name).content_encoding = "gzip"
  \/ HasExtIn(name, job.gzip_exts)

\* C25: the headers dictionary of the caller is after every PerformCopy call
\* what it was before the first, and an object stored by a later call of the
\* batch carries the gzip marker only if its own upload set it
C25_HeadersUnchanged ==
  \A i \in 1..Len(calls) :
    calls[i].op = "PerformCopy"
      => /\ calls[i].headers = NoHeaders
         /\ (calls[i].err = "ok" /\ is_file_uri(calls[i].src)
              /\ is_cloud_uri(calls[i].dst))
              => (WorldAfter(i).objects[calls[i].dst].content_encoding = "gzip"
                    <=> OwnEncoding(calls[i].src.object_name))

C25_Witness ==
  /\ Len(calls) = 2 /\ job.guess_type
  /\ Dispatched(1) /\ calls[1].err = "ok" /\ calls[1].src = FileUri(P_a_gz)
  /\ is_cloud_uri(calls[1].dst)
  /\ world.objects[calls[1].dst].content_encoding = "gzip"
  /\ Dispatched(2) /\ calls[2].err = "ok" /\ calls[2].src = FileUri(P_a_txt)
  /\ is_cloud_uri(calls[2].dst)
  /\ world.objects[calls[2].dst].content_encoding = "none"

\* UpdateCommand has ended
UpdateEnded == pc \in {"done", "failed"}

\* C26: SIGINT is ignored while the tarball is extracted and the directories
\* are renamed, and when UpdateCommand has ended after the masking began,
\* with success or with a failed extraction or rename, SIGINT has its default
\* handling again
C26_SigintRestored ==
  /\ pc \in {"extract", "rename"} => world.sigint = "SIG_IGN"
  /\ (UpdateEnded /\ world.masked) => world.sigint = "SIG_DFL"

\* C27: the destination HandleMultiSrcCopyRequst gives, and with it the
\* pairs the copy loop transfers, is the same whichever key the expansion map
\* lists first
C27_OrderIndependence ==
  (pc = "checked" /\ multi_src_request)
    => \A k \in 1..Len(expansion) :
         HandleMultiSrcCopyRequst(fs, <<expansion[k]>>, base_dst_uri).uri
           = HandleMultiSrcCopyRequst(fs, expansion, base_dst_uri).uri

CopyPhaseComplete ==
  /\ Len(copies) = Len(PairsOf(expansion))
  /\ \A i \in 1..Len(copies) : copies[i].err = "ok"

\* C29: mv deletes nothing before its copy phase has transferred every pair
\* without error, and nothing at all when the validation or a transfer has
\* failed; every name it deletes is one of the expanded sources computed
\* before the copying; a container as first source is refused before any copy
C29_MoveDeletesAfterCopy ==
  /\ job.phase = "cp"
       => /\ calls = <<>>
          /\ W0.files \subseteq fs.files /\ W0.objs \subseteq fs.objs
  /\ job.phase = "rm"
       => /\ CopyPhaseComplete
          /\ \A i \in 1..Len(calls) :
               \E k \in 1..Len(srcs) : calls[i].uri = srcs[k]
  /\ names_container(W0, job.args[1])
       => /\ pc = "mv" \/ (pc = "failed" /\ raised_by = "MoveObjsCommand")
          /\ fs = W0 /\ copies = <<>> /\ calls = <<>>

C29_Witness ==
  /\ pc = "done" /\ job.phase = "rm"
  /\ Len(copies) = 2 /\ Len(calls) = 2
  /\ \A i \in 1..2 : calls[i].err = "ok" /\ ~HasKey(fs, calls[i].uri)
  /\ \E i \in 1..Len(job.args) : ContainsWildcard(job.args[i])

\* C30: no PerformCopy call of the copy loop is given a destination that
\* SrcDstSame takes for its source
C30_NeverSameObject ==
  \A i \in 1..Len(copies) :
    copies[i].err = "ok" => ~SrcDstSame(copies[i].src, copies[i].dst)

====
